---- MODULE Spec2Model ----
(***************************************************************************)
(* L-Store: column store with base/tail records, a primary-key index,      *)
(* versioned reads, no-wait shared/exclusive RID locks and transactions    *)
(* run by worker threads.                                                  *)
(*                                                                         *)
(* The specifications share the variables below:                           *)
(*   Spec          single-threaded calls of the Query facade on one table  *)
(*   SpecStore     the facade with secondary indexes, sum, merge, recovery *)
(*   SpecInsert    inserts into more rows than one base page holds         *)
(*   SpecInserters threads that insert and update without a latch          *)
(*   SpecLock      calls of the LockManager by several transactions        *)
(*   SpecTxn       Transactions run concurrently by TransactionWorkers     *)
(*   SpecPool      calls of the Bufferpool (frames, LRU clock, page files) *)
(*   SpecPins      get_page, pin_page, unpin_page with the pins counted    *)
(*   SpecClient    one thread that writes pages and marks them dirty       *)
(*   SpecWriters   threads that write through the shared Bufferpool        *)
(*   SpecTree      calls of the auxiliary B+ tree (bplustreelib)           *)
(*   SpecMerge     inserts and deletes on a B+ tree of order 3, six keys   *)
(***************************************************************************)
EXTENDS Integers, Sequences, FiniteSets, TLC

(***************************************************************************)
(* lstore/config.py                                                        *)
(***************************************************************************)
INDIRECTION_COLUMN == 0
RID_COLUMN == 1
TIMESTAMP_COLUMN == 2
SCHEMA_ENCODING_COLUMN == 3
META_COLUMNS == 4
TAIL_RID_START == 1000000000
\* 512 in config.py; the model runs with small pages so that a second page
\* of every column comes into use.
MAX_RECORDS_PER_PAGE == 2

(***************************************************************************)
(* The table under test: Table(name, num_columns, key)                     *)
(***************************************************************************)
num_columns == 2
key == 0

\* Python's None, where an integer is expected (user values are >= 0)
None == -1

(***************************************************************************)
(* Bounds of the model                                                     *)
(***************************************************************************)
MaxBase == 2          \* base records appended in Spec
MaxUpdates == 2       \* successful update calls in Spec
NumTxns == 3          \* transactions that call the LockManager in SpecLock
LockRids == {0, 1}    \* RIDs they lock
NumWorkers == 2       \* TransactionWorkers (threads) in SpecTxn, one transaction each
\* 100 in TransactionWorker.__run; the model gives up after fewer attempts
MAX_RETRIES == 2
\* 64 in config.py; the model's pool has few frames so that it fills up
BUFFERPOOL_SIZE == 2
MaxClock == 4         \* get_page calls in SpecPool (Bufferpool.clock)
MaxPageLen == 1       \* values a client of SpecPool appends to one page
MaxTails == 1         \* tail records appended in SpecStore
NumInserters == 2     \* threads that insert and update in SpecInserters
NumWriters == 2       \* threads that write through the Bufferpool in SpecWriters
MaxGets == 6          \* get_page calls in SpecClient
MaxPins == 2          \* pins one client holds on a page in SpecPins
MaxInserts == 3       \* rows inserted in SpecInsert, one more than a page holds
TreeOrders == {3, 4}  \* orders of the B+ trees built in SpecTree
TreeKeys == {10, 20, 30, 40, 50}   \* keys offered to the B+ tree
TreeValues == {7, 8}  \* values offered to the B+ tree
Keys == {1, 2}        \* primary keys offered to the facade
Values == {10, 11}    \* values offered for the other user columns

VARIABLES
  table,      \* the Table object: page_directory, pages, counters, deleted, index
  qcache,     \* the Query object's tail maps (_prev_cache, _ts_cache, _head_cache)
  ret,        \* the last facade call and what it returned
  hist,       \* history: per base RID the rows given by insert and by each update
  locks,      \* LockManager._locks: RID -> {shared, exclusive}
  lockcall,   \* the last LockManager call, its outcome, the lock table before it
  txns,       \* the Transaction objects: queries and the three rollback lists
  wk,         \* the TransactionWorker threads: batch position, retries, stats
  seen,       \* per worker: the table when the current run() began, and what
              \* the queries of that run did
  bufferpool, \* the Bufferpool object: pages (page_id -> frame) and clock
  disk,       \* the page files under DATA_DIR: page_id -> JSON object
  poolcall,   \* the last Bufferpool call, its outcome, the frames before it
  bptree,     \* the BPlusTree object: order, root and the nodes it reaches
  treecall,   \* the last BPlusTree call, its result, and the pairs an ordered
              \* map holds after the same calls
  pins,       \* per resident frame: the pin_page calls not yet matched by an
              \* unpin_page call
  written,    \* per page: the values its slots were last given by a client
  pending,    \* the pages written since their last mark_dirty
  writers,    \* the threads that write through the shared Bufferpool: where
              \* each one is in get/pin/write/mark_dirty/unpin, the Page object
              \* it holds, and the writes it has finished
  inserters   \* the threads that call insert and update on one table: where
              \* each one is in insert_row / update_row, its locals, and the
              \* RIDs its finished calls allocated

tableVars == <<table, qcache, ret, hist>>

lockVars == <<locks, lockcall>>

txnVars == <<txns, wk, seen>>

poolVars == <<bufferpool, disk, poolcall>>

treeVars == <<bptree, treecall>>

clientVars == <<pins, written, pending, writers, inserters>>

(***************************************************************************)
(* Small helpers                                                           *)
(***************************************************************************)
Max(a, b) == IF a >= b THEN a ELSE b

Min(S) == CHOOSE x \in S : \A y \in S : x <= y

RECURSIVE Pow2(_)
Pow2(n) == IF n = 0 THEN 1 ELSE 2 * Pow2(n - 1)

\* (bm >> c) & 1
Bit(bm, c) == (bm \div Pow2(c)) % 2

\* the elements of a finite set of integers, ascending
RECURSIVE SortedSeq(_)
SortedSeq(S) == IF S = {} THEN <<>> ELSE <<Min(S)>> \o SortedSeq(S \ {Min(S)})

Range(sq) == {sq[i] : i \in 1..Len(sq)}

(***************************************************************************)
(* lstore/table.py : identities and cell access                            *)
(***************************************************************************)
_total_cols == META_COLUMNS + num_columns

\* The TIMESTAMP cell takes the wall clock of the write.  Nothing reads the
\* cell but _ensure_tail_maps, whose comparison of timestamps is never
\* reached (see BuildHeads), so one instant stands for all of them.
_ts_millis == 0

\* "<table>_<col>_<pageNo>_<isBase(0|1)>" as the tuple of its parts
_page_id(col_index, page_number, is_base) ==
  <<col_index, page_number, IF is_base THEN 1 ELSE 0>>

_is_base_rid(rid) == rid < TAIL_RID_START

\* Bufferpool.get_page as the table sees it: the page, or a new empty one
get_page(t, pid) == IF pid \in DOMAIN t.pages THEN t.pages[pid] ELSE <<>>

\* Page.has_capacity
has_capacity(data) == Len(data) < MAX_RECORDS_PER_PAGE

\* Page.read raises IndexError unless 0 <= slot < num_records
CanRead(t, rid, col_index) ==
  /\ rid \in DOMAIN t.page_directory
  /\ t.page_directory[rid][col_index + 1] # <<>>
  /\ LET loc == t.page_directory[rid][col_index + 1]
     IN /\ loc[1] \in DOMAIN t.pages
        /\ loc[2] < Len(t.pages[loc[1]])

_read_cell(t, rid, col_index) ==
  LET loc == t.page_directory[rid][col_index + 1]
  IN t.pages[loc[1]][loc[2] + 1]

\* Page.write_at / page.data[slot] = value
write_at(t, rid, col_index, value) ==
  LET loc == t.page_directory[rid][col_index + 1]
  IN [t EXCEPT !.pages[loc[1]][loc[2] + 1] = value]

_generate_rid(t, page_type) ==
  IF page_type = "base" THEN t.base_record_count
  ELSE TAIL_RID_START + t.tail_record_count

_ensure_dir_entry(t, rid) ==
  IF rid \in DOMAIN t.page_directory THEN t
  ELSE [t EXCEPT !.page_directory = (rid :> [c \in 1.._total_cols |-> <<>>]) @@ @]

\* mutant: the base row is taken for the latest version
_get_latest_rid_NoHop(t, base_rid) == base_rid

_get_latest_rid(t, base_rid) ==
  LET indir == _read_cell(t, base_rid, INDIRECTION_COLUMN)
  IN IF indir = 0 THEN base_rid ELSE indir

\* the user columns stored at one RID (base or tail)
_read_user_values_from_rid(t, rid) ==
  [i \in 1..num_columns |-> _read_cell(t, rid, META_COLUMNS + i - 1)]

_materialize_latest_user_values(t, base_rid) ==
  _read_user_values_from_rid(t, _get_latest_rid(t, base_rid))

\* the base RIDs of the page directory, in dictionary (insertion) order
BaseRids(t) == {r \in DOMAIN t.page_directory : _is_base_rid(r)}

TailRids(t) == {r \in DOMAIN t.page_directory : ~_is_base_rid(r)}

(***************************************************************************)
(* lstore/index.py                                                         *)
(***************************************************************************)
\* An index slot is None (present = FALSE) or a dict value -> posting.
\* A posting is the list insert_entry stores (form "list") or the bare RID
\* that Transaction.abort stores (form "int").
NoIndex == [present |-> FALSE, map |-> <<>>]

EmptyIndex == [present |-> TRUE, map |-> <<>>]

Posting(rids) == [form |-> "list", rids |-> rids]

insert_entry(indices, rid, columnNum, value) ==
  IF columnNum < 0 \/ columnNum >= num_columns THEN indices
  ELSE LET m == indices[columnNum + 1].map
           old == IF value \in DOMAIN m THEN m[value].rids ELSE <<>>
           new == IF columnNum = key THEN Posting(<<rid>>)
                  ELSE Posting(Append(old, rid))
       IN [indices EXCEPT ![columnNum + 1] =
             [present |-> TRUE, map |-> (value :> new) @@ m]]

locate(indices, column, value) ==
  IF column < 0 \/ column >= num_columns THEN <<>>
  ELSE IF ~indices[column + 1].present THEN <<>>
  ELSE IF value \in DOMAIN indices[column + 1].map
       THEN indices[column + 1].map[value].rids
       ELSE <<>>

\* dict.pop(k, None)
DictPop(m, k) == [x \in (DOMAIN m) \ {k} |-> m[x]]

\* the loop of create_index over the base RIDs of the page directory (in
\* dictionary order, which is the order of allocation): deleted RIDs are not
\* skipped
RECURSIVE CreateEntries(_, _, _, _)
CreateEntries(t, m, rids, column_number) ==
  IF rids = <<>> THEN m
  ELSE LET rid == Head(rids)
           value == _materialize_latest_user_values(t, rid)[column_number + 1]
           old == IF value \in DOMAIN m THEN m[value].rids ELSE <<>>
           new == IF column_number = key THEN Posting(<<rid>>)
                  ELSE Posting(Append(old, rid))
       IN CreateEntries(t, (value :> new) @@ m, Tail(rids), column_number)

\* Index.create_index: the table afterwards, and whether ValueError was raised
create_index(t, column_number) ==
  IF column_number < 0 \/ column_number >= num_columns THEN [t |-> t, exc |-> TRUE]
  ELSE IF t.index[column_number + 1].present THEN [t |-> t, exc |-> TRUE]
  ELSE [t |-> [t EXCEPT !.index[column_number + 1] =
                 [present |-> TRUE,
                  map |-> CreateEntries(t, <<>>, SortedSeq(BaseRids(t)), column_number)]],
        exc |-> FALSE]

(***************************************************************************)
(* lstore/table.py : append of a record, insert_row, update_row            *)
(***************************************************************************)
\* the loop of _write_to_base_pages / _write_to_tail_pages over the physical
\* columns; Page.write raises OverflowError on a full page and the columns
\* written before it stay written
RECURSIVE WriteCols(_, _, _, _, _, _)
WriteCols(t, rid, full_record, col_index, page_number, is_base) ==
  IF col_index >= _total_cols THEN [t |-> t, exc |-> FALSE]
  ELSE LET page_id == _page_id(col_index, page_number, is_base)
           data == get_page(t, page_id)
       IN IF ~has_capacity(data) THEN [t |-> t, exc |-> TRUE]
          ELSE LET slot == Len(data)
                   t1 == [t EXCEPT
                           !.pages = (page_id :> Append(data, full_record[col_index + 1])) @@ @,
                           !.page_directory[rid][col_index + 1] = <<page_id, slot>>]
               IN WriteCols(t1, rid, full_record, col_index + 1, page_number, is_base)

\* mutant: the page number counts the row that is being written
_write_to_base_pages_CountsNewRow(t, rid, full_record) ==
  LET page_number == (t.base_record_count + 1) \div MAX_RECORDS_PER_PAGE
      w == WriteCols(_ensure_dir_entry(t, rid), rid, full_record, 0, page_number, TRUE)
  IN IF w.exc THEN w
     ELSE [t |-> [w.t EXCEPT !.base_record_count = @ + 1], exc |-> FALSE]

_write_to_base_pages(t, rid, full_record) ==
  LET page_number == t.base_record_count \div MAX_RECORDS_PER_PAGE
      w == WriteCols(_ensure_dir_entry(t, rid), rid, full_record, 0, page_number, TRUE)
  IN IF w.exc THEN w
     ELSE [t |-> [w.t EXCEPT !.base_record_count = @ + 1], exc |-> FALSE]

_write_to_tail_pages(t, tail_rid, full_record) ==
  LET page_number == t.tail_record_count \div MAX_RECORDS_PER_PAGE
      w == WriteCols(_ensure_dir_entry(t, tail_rid), tail_rid, full_record, 0, page_number, FALSE)
  IN IF w.exc THEN w
     ELSE [t |-> [w.t EXCEPT !.tail_record_count = @ + 1], exc |-> FALSE]

\* the rows the fallback scan of insert_row rejects on
ScanHasKey(t, pk_val) ==
  \E rid \in BaseRids(t) :
     /\ rid \notin t.deleted
     /\ _read_cell(t, rid, META_COLUMNS + key) = pk_val

RECURSIVE InsertEntries(_, _, _, _)
InsertEntries(indices, rid, columns, col_index) ==
  IF col_index >= num_columns THEN indices
  ELSE InsertEntries(
         IF indices[col_index + 1].present
         THEN insert_entry(indices, rid, col_index, columns[col_index + 1])
         ELSE indices,
         rid, columns, col_index + 1)

\* result: the table afterwards, the value returned, whether it raised
insert_row(t, columns, ts) ==
  IF Len(columns) # num_columns THEN [t |-> t, ret |-> FALSE, exc |-> FALSE]
  ELSE
    LET pk_val == columns[key + 1]
        pk_idx == t.index[key + 1]
    IN IF pk_idx.present /\ pk_val \in DOMAIN pk_idx.map
       THEN [t |-> t, ret |-> FALSE, exc |-> FALSE]
       ELSE IF ~pk_idx.present /\ ScanHasKey(t, pk_val)
       THEN [t |-> t, ret |-> FALSE, exc |-> FALSE]
       ELSE
         LET rid == _generate_rid(t, "base")
             full_record == <<0, rid, ts, 0>> \o columns
             w == _write_to_base_pages(t, rid, full_record)
         IN IF w.exc THEN [t |-> w.t, ret |-> FALSE, exc |-> TRUE]
            ELSE [t |-> [w.t EXCEPT !.index = InsertEntries(@, rid, columns, 0)],
                  ret |-> TRUE, exc |-> FALSE]

\* mutant: a given value counts as a change also when it equals the current one
RECURSIVE BuildMask_AnyGiven(_, _, _)
BuildMask_AnyGiven(columns, current, i) ==
  IF i >= num_columns THEN 0
  ELSE (IF columns[i + 1] # None THEN Pow2(i) ELSE 0)
         + BuildMask_AnyGiven(columns, current, i + 1)

\* bitmask of the columns whose given value is not None and differs
RECURSIVE BuildMask(_, _, _)
BuildMask(columns, current, i) ==
  IF i >= num_columns THEN 0
  ELSE (IF columns[i + 1] # None /\ columns[i + 1] # current[i + 1]
        THEN Pow2(i) ELSE 0) + BuildMask(columns, current, i + 1)

\* mutant: the newest tail is not looked up, every tail hangs off the base
_latest_rid_for_base_Base(t, rid0) == rid0

\* update_row's local helper: INDIRECTION of the base row, or the base row
_latest_rid_for_base(t, rid0) ==
  LET latest == _read_cell(t, rid0, INDIRECTION_COLUMN)
  IN IF latest = 0 \/ latest = None THEN rid0 ELSE latest

update_row(t, base_rid, columns, ts) ==
  IF Len(columns) # num_columns THEN [t |-> t, ret |-> FALSE]
  ELSE IF base_rid \notin DOMAIN t.page_directory THEN [t |-> t, ret |-> FALSE]
  ELSE IF ~CanRead(t, base_rid, INDIRECTION_COLUMN) THEN [t |-> t, ret |-> FALSE]
  ELSE
    LET latest_rid == _latest_rid_for_base(t, base_rid)
    IN IF \E i \in 1..num_columns : ~CanRead(t, latest_rid, META_COLUMNS + i - 1)
       THEN [t |-> t, ret |-> FALSE]
       ELSE
         LET current == _read_user_values_from_rid(t, latest_rid)
             bitmask == BuildMask(columns, current, 0)
             new_vals == [i \in 1..num_columns |->
                            IF columns[i] # None /\ columns[i] # current[i]
                            THEN columns[i] ELSE current[i]]
         IN IF bitmask = 0 THEN [t |-> t, ret |-> TRUE]
            ELSE
              LET new_tail_rid == _generate_rid(t, "tail")
                  prev_ptr == IF latest_rid # base_rid THEN latest_rid ELSE 0
                  full_tail == <<prev_ptr, new_tail_rid, ts, bitmask>> \o new_vals
                  w == _write_to_tail_pages(t, new_tail_rid, full_tail)
              IN IF w.exc THEN [t |-> w.t, ret |-> FALSE]
                 ELSE [t |-> write_at(w.t, base_rid, INDIRECTION_COLUMN, new_tail_rid),
                       ret |-> TRUE]

(***************************************************************************)
(* lstore/query.py : helpers                                               *)
(***************************************************************************)
AllOnes == [i \in 1..num_columns |-> 1]

_proj(projected_columns_index) ==
  IF Len(projected_columns_index) = num_columns THEN projected_columns_index
  ELSE IF Len(projected_columns_index) = num_columns + META_COLUMNS
  THEN SubSeq(projected_columns_index, META_COLUMNS + 1, META_COLUMNS + num_columns)
  ELSE AllOnes

\* the fallback scan over the base rows' key cell, in dictionary order
ScanForKey(t, pk) ==
  LET hits == {rid \in BaseRids(t) :
                 /\ rid \notin t.deleted
                 /\ CanRead(t, rid, META_COLUMNS + key)
                 /\ _read_cell(t, rid, META_COLUMNS + key) = pk}
  IN IF hits = {} THEN None ELSE Min(hits)

\* d.get(pk) is used only when truthy; hits[0] of a bare RID raises TypeError,
\* which is swallowed and leads to the scan
_pk_to_rid(t, pk) ==
  LET d == t.index[key + 1]
  IN IF /\ d.present
        /\ pk \in DOMAIN d.map
        /\ d.map[pk].form = "list"
        /\ d.map[pk].rids # <<>>
     THEN (IF d.map[pk].rids[1] \notin t.deleted THEN d.map[pk].rids[1] ELSE None)
     ELSE ScanForKey(t, pk)

\* every cell that _materialize_latest_user_values reads is there
CanReadLatest(t, base_rid) ==
  /\ CanRead(t, base_rid, INDIRECTION_COLUMN)
  /\ \A i \in 1..num_columns :
        CanRead(t, _get_latest_rid(t, base_rid), META_COLUMNS + i - 1)

_latest_user_values(t, base_rid) == _materialize_latest_user_values(t, base_rid)

_make_records(rows, proj_mask) ==
  [r \in 1..Len(rows) |->
     [i \in 1..num_columns |-> IF proj_mask[i] # 0 THEN rows[r][i] ELSE None]]

\* the rows of the RIDs of a list for which keep holds, in list order
RECURSIVE LatestRows(_, _, _)
LatestRows(t, rids, keep) ==
  IF rids = <<>> THEN <<>>
  ELSE (IF Head(rids) \in keep /\ CanReadLatest(t, Head(rids))
        THEN <<_latest_user_values(t, Head(rids))>> ELSE <<>>)
       \o LatestRows(t, Tail(rids), keep)

(***************************************************************************)
(* lstore/query.py : insert, select, update, delete, increment             *)
(***************************************************************************)
\* Query.insert: an exception of insert_row becomes False
insert(t, columns, ts) ==
  LET r == insert_row(t, columns, ts)
  IN [t |-> r.t, ret |-> r.ret]

select(t, search_key, search_key_index, projected_columns_index) ==
  LET proj == _proj(projected_columns_index)
      live == BaseRids(t) \ t.deleted
  IN IF search_key_index = key
     THEN LET rid == _pk_to_rid(t, search_key)
          IN IF rid # None /\ rid \notin t.deleted
             THEN (IF CanReadLatest(t, rid)
                   THEN _make_records(<<_latest_user_values(t, rid)>>, proj)
                   ELSE <<>>)
             ELSE LET br == ScanForKey(t, search_key)
                  IN IF br = None THEN <<>>
                     ELSE IF CanReadLatest(t, br)
                     THEN _make_records(<<_latest_user_values(t, br)>>, proj)
                     ELSE <<>>
     ELSE IF search_key_index < 0 \/ search_key_index >= num_columns THEN <<>>
     ELSE LET rids_from_index == locate(t.index, search_key_index, search_key)
          IN IF rids_from_index # <<>>
             THEN _make_records(LatestRows(t, rids_from_index, live), proj)
             ELSE _make_records(
                    LatestRows(t, SortedSeq(live),
                      {r \in live : /\ CanReadLatest(t, r)
                                    /\ _latest_user_values(t, r)[search_key_index + 1]
                                         = search_key}),
                    proj)

update(t, primary_key, columns, ts) ==
  IF Len(columns) # num_columns THEN [t |-> t, ret |-> FALSE]
  ELSE LET rid == _pk_to_rid(t, primary_key)
       IN IF rid = None \/ rid \in t.deleted THEN [t |-> t, ret |-> FALSE]
          ELSE IF ~CanReadLatest(t, rid) THEN [t |-> t, ret |-> FALSE]
          ELSE LET current == _latest_user_values(t, rid)
                   filled == [i \in 1..num_columns |->
                                IF columns[i] = None THEN current[i] ELSE columns[i]]
               IN update_row(t, rid, filled, ts)

delete(t, primary_key) ==
  LET rid == _pk_to_rid(t, primary_key)
      idx == t.index[key + 1]
  IN IF rid = None THEN [t |-> t, ret |-> FALSE]
     ELSE [t |-> [t EXCEPT
                    !.index[key + 1].map =
                       IF idx.present /\ primary_key \in DOMAIN idx.map
                       THEN DictPop(@, primary_key) ELSE @,
                    !.deleted = @ \cup {rid}],
           ret |-> TRUE]

\* Index.locate_range: the postings of the keys in [begin, end]
RECURSIVE locate_range(_, _, _, _)
locate_range(idx, begin, end, todo) ==
  IF todo = {} THEN <<>>
  ELSE LET value == Min(todo)
       IN (IF begin <= value /\ value <= end THEN idx.map[value].rids ELSE <<>>)
            \o locate_range(idx, begin, end, todo \ {value})

RECURSIVE SumOver(_, _, _)
SumOver(t, rids, col) ==
  IF rids = <<>> THEN 0
  ELSE (IF ~_is_base_rid(Head(rids)) \/ Head(rids) \in t.deleted THEN 0
        ELSE _latest_user_values(t, Head(rids))[col + 1])
       + SumOver(t, Tail(rids), col)

\* Query.sum over the primary-key index (the table always has one); every
\* posting is a list of RIDs of the page directory, so no read raises
sum(t, start_range, end_range, aggregate_column_index) ==
  SumOver(t,
          locate_range(t.index[key + 1], start_range, end_range,
                       DOMAIN t.index[key + 1].map),
          aggregate_column_index)

(***************************************************************************)
(* lstore/query.py : versioned read                                        *)
(***************************************************************************)
NoCache == [built |-> FALSE, prev |-> <<>>, ts |-> <<>>, head |-> <<>>]

\* while base in self._prev_cache: base = self._prev_cache[base]
RECURSIVE WalkToBase(_, _, _)
WalkToBase(prev, base, fuel) ==
  IF fuel = 0 \/ base \notin DOMAIN prev THEN base
  ELSE WalkToBase(prev, prev[base], fuel - 1)

\* the loop that computes the newest head per base, by timestamp
RECURSIVE BuildHeads(_, _, _, _)
BuildHeads(prev, ts, tails, head) ==
  IF tails = <<>> THEN head
  ELSE LET tl == Head(tails)
           base == WalkToBase(prev, prev[tl], Len(tails) + Cardinality(DOMAIN prev))
           cur_head == IF base \in DOMAIN head THEN head[base] ELSE 0
           cur_ts == IF cur_head \in DOMAIN ts THEN ts[cur_head] ELSE -1
       IN IF base = 0 THEN BuildHeads(prev, ts, Tail(tails), head)
          ELSE IF cur_head = 0 \/ ts[tl] > cur_ts
          THEN BuildHeads(prev, ts, Tail(tails), (base :> tl) @@ head)
          ELSE BuildHeads(prev, ts, Tail(tails), head)

\* built once per Query object, from the page directory of that moment
_ensure_tail_maps(t, qc) ==
  IF qc.built THEN qc
  ELSE LET prev == [r \in TailRids(t) |-> _read_cell(t, r, INDIRECTION_COLUMN)]
           ts == [r \in TailRids(t) |-> _read_cell(t, r, TIMESTAMP_COLUMN)]
       IN [built |-> TRUE, prev |-> prev, ts |-> ts,
           head |-> BuildHeads(prev, ts, SortedSeq(TailRids(t)), <<>>)]

\* the loop of _collect_tail_chain from cur on; exc when a tail that is not
\* cached is not in the page directory either
RECURSIVE ChainFrom(_, _, _, _, _)
ChainFrom(t, qc, cur, tails, fuel) ==
  IF cur = 0 \/ fuel = 0 THEN [tails |-> tails, exc |-> FALSE]
  ELSE IF cur \in DOMAIN qc.prev
  THEN (IF qc.prev[cur] = cur THEN [tails |-> Append(tails, cur), exc |-> FALSE]
        ELSE ChainFrom(t, qc, qc.prev[cur], Append(tails, cur), fuel - 1))
  ELSE IF ~CanRead(t, cur, INDIRECTION_COLUMN)
  THEN [tails |-> Append(tails, cur), exc |-> TRUE]
  ELSE LET nxt == _read_cell(t, cur, INDIRECTION_COLUMN)
       IN IF nxt = cur THEN [tails |-> Append(tails, cur), exc |-> FALSE]
          ELSE ChainFrom(t, qc, nxt, Append(tails, cur), fuel - 1)

_collect_tail_chain(t, qc, base_rid) ==
  LET own == IF CanRead(t, base_rid, INDIRECTION_COLUMN)
             THEN _read_cell(t, base_rid, INDIRECTION_COLUMN) ELSE 0
      head == IF own # 0 THEN own
              ELSE IF base_rid \in DOMAIN qc.head THEN qc.head[base_rid] ELSE 0
  IN ChainFrom(t, qc, head, <<>>, Cardinality(DOMAIN t.page_directory) + 1)

\* mutant: the overlay lets every older tail overwrite what a newer one set
RECURSIVE Overlay_OlderWins(_, _, _, _, _)
Overlay_OlderWins(t, tails, i, row, filled) ==
  IF i > Len(tails) THEN row
  ELSE LET tr == tails[i]
           bm == _read_cell(t, tr, SCHEMA_ENCODING_COLUMN)
           tvals == _read_user_values_from_rid(t, tr)
       IN Overlay_OlderWins(t, tails, i + 1,
            [c \in 1..num_columns |-> IF Bit(bm, c - 1) = 1 THEN tvals[c] ELSE row[c]],
            filled)

\* the overlay loop: from tails[i] towards older tails, a column is taken
\* from the first tail whose SCHEMA bit for it is set
RECURSIVE Overlay(_, _, _, _, _)
Overlay(t, tails, i, row, filled) ==
  IF i > Len(tails) \/ (\A c \in 1..num_columns : filled[c]) THEN row
  ELSE LET tr == tails[i]
           bm == _read_cell(t, tr, SCHEMA_ENCODING_COLUMN)
           tvals == _read_user_values_from_rid(t, tr)
           take == [c \in 1..num_columns |-> Bit(bm, c - 1) = 1 /\ ~filled[c]]
       IN Overlay(t, tails, i + 1,
                  [c \in 1..num_columns |-> IF take[c] THEN tvals[c] ELSE row[c]],
                  [c \in 1..num_columns |-> filled[c] \/ take[c]])

\* qc is the cache after _ensure_tail_maps; result: the row, or exc
_compose_row_at_version(t, qc, base_rid, rv_index) ==
  LET row == _read_user_values_from_rid(t, base_rid)
      ch == _collect_tail_chain(t, qc, base_rid)
      tails == ch.tails
  IN IF ch.exc THEN [row |-> row, exc |-> TRUE]
     ELSE IF tails = <<>> \/ rv_index >= Len(tails) THEN [row |-> row, exc |-> FALSE]
     ELSE IF \E j \in 1..Len(tails) :
               \E c \in 0.._total_cols - 1 : ~CanRead(t, tails[j], c)
     THEN [row |-> row, exc |-> TRUE]
     ELSE [row |-> Overlay(t, tails, rv_index + 1, row,
                           [c \in 1..num_columns |-> FALSE]),
           exc |-> FALSE]

\* the records select_version returns; the caller stores the cache that
\* _ensure_tail_maps leaves behind
select_version(t, qc, search_key, search_key_index, projected_columns_index, relative_version) ==
  IF search_key_index # key
  THEN select(t, search_key, search_key_index, projected_columns_index)
  ELSE LET proj == _proj(projected_columns_index)
           base_rid == _pk_to_rid(t, search_key)
           rv_index == IF relative_version >= 0 THEN 0 ELSE -relative_version
       IN IF base_rid = None \/ base_rid \in t.deleted THEN <<>>
          ELSE LET r == _compose_row_at_version(t, _ensure_tail_maps(t, qc),
                                                base_rid, rv_index)
               IN IF r.exc THEN <<>> ELSE _make_records(<<r.row>>, proj)

\* the cache of the Query object after a select_version call
CacheAfterSelectVersion(t, qc, search_key, search_key_index) ==
  IF search_key_index # key THEN qc
  ELSE LET base_rid == _pk_to_rid(t, search_key)
       IN IF base_rid = None \/ base_rid \in t.deleted THEN qc
          ELSE _ensure_tail_maps(t, qc)

\* the loop of sum_version over the base RIDs of the range; exc when
\* _compose_row_at_version raises
RECURSIVE SumVersionOver(_, _, _, _, _)
SumVersionOver(t, qc, base_rids, col, rv_index) ==
  IF base_rids = <<>> THEN [total |-> 0, exc |-> FALSE]
  ELSE LET br == Head(base_rids)
           rest == SumVersionOver(t, qc, Tail(base_rids), col, rv_index)
       IN IF br \in t.deleted THEN rest
          ELSE LET r == _compose_row_at_version(t, qc, br, rv_index)
               IN IF r.exc THEN [total |-> 0, exc |-> TRUE]
                  ELSE [total |-> r.row[col + 1] + rest.total, exc |-> rest.exc]

\* Query.sum_version (the table always has a primary-key index): the total,
\* or exc for the False that an exception is turned into
sum_version(t, qc, start_range, end_range, aggregate_column_index, relative_version) ==
  LET rv_index == IF relative_version >= 0 THEN 0 ELSE -relative_version
      base_rids == locate_range(t.index[key + 1], start_range, end_range,
                                DOMAIN t.index[key + 1].map)
  IN SumVersionOver(t, _ensure_tail_maps(t, qc), base_rids,
                    aggregate_column_index, rv_index)

(***************************************************************************)
(* lstore/lock_manager.py                                                  *)
(***************************************************************************)
\* self._locks[rid] of the defaultdict: the entry, a fresh one when absent
Entry(L, rid) == IF rid \in DOMAIN L THEN L[rid] ELSE [shared |-> {}, exclusive |-> None]

\* mutant: a shared lock is granted next to another transaction's exclusive lock
acquire_shared_IgnoresExclusive(L, txn_id, rid) ==
  [locks |-> (rid :> [Entry(L, rid) EXCEPT !.shared = @ \cup {txn_id}]) @@ L,
   exc |-> FALSE]

\* mutant: a refused request stays in the shared set
acquire_shared_RecordsRefused(L, txn_id, rid) ==
  LET entry == Entry(L, rid)
  IN IF txn_id \in entry.shared \/ entry.exclusive = txn_id
     THEN [locks |-> (rid :> entry) @@ L, exc |-> FALSE]
     ELSE [locks |-> (rid :> [entry EXCEPT !.shared = @ \cup {txn_id}]) @@ L,
           exc |-> entry.exclusive # None]

\* result: the lock table afterwards, and whether LockException was raised
acquire_shared(L, txn_id, rid) ==
  LET entry == Entry(L, rid)
  IN IF txn_id \in entry.shared \/ entry.exclusive = txn_id
     THEN [locks |-> (rid :> entry) @@ L, exc |-> FALSE]
     ELSE IF entry.exclusive # None
     THEN [locks |-> (rid :> entry) @@ L, exc |-> TRUE]
     ELSE [locks |-> (rid :> [entry EXCEPT !.shared = @ \cup {txn_id}]) @@ L,
           exc |-> FALSE]

\* mutant: a shared holder is upgraded although others hold S too
acquire_exclusive_UpgradeAlways(L, txn_id, rid) ==
  LET entry == Entry(L, rid)
  IN IF entry.exclusive = txn_id
     THEN [locks |-> (rid :> entry) @@ L, exc |-> FALSE]
     ELSE IF txn_id \in entry.shared
     THEN [locks |-> (rid :> [shared |-> entry.shared \ {txn_id},
                              exclusive |-> txn_id]) @@ L,
           exc |-> FALSE]
     ELSE IF entry.shared # {} \/ entry.exclusive # None
     THEN [locks |-> (rid :> entry) @@ L, exc |-> TRUE]
     ELSE [locks |-> (rid :> [entry EXCEPT !.exclusive = txn_id]) @@ L,
           exc |-> FALSE]

\* mutant: the shared holders are not looked at
acquire_exclusive_IgnoresShared(L, txn_id, rid) ==
  LET entry == Entry(L, rid)
  IN IF entry.exclusive = txn_id
     THEN [locks |-> (rid :> entry) @@ L, exc |-> FALSE]
     ELSE IF entry.exclusive # None
     THEN [locks |-> (rid :> entry) @@ L, exc |-> TRUE]
     ELSE [locks |-> (rid :> [entry EXCEPT !.exclusive = txn_id]) @@ L,
           exc |-> FALSE]

acquire_exclusive(L, txn_id, rid) ==
  LET entry == Entry(L, rid)
  IN IF entry.exclusive = txn_id
     THEN [locks |-> (rid :> entry) @@ L, exc |-> FALSE]
     ELSE IF txn_id \in entry.shared
     THEN (IF Cardinality(entry.shared) = 1
           THEN [locks |-> (rid :> [shared |-> entry.shared \ {txn_id},
                                    exclusive |-> txn_id]) @@ L,
                 exc |-> FALSE]
           ELSE [locks |-> (rid :> entry) @@ L, exc |-> TRUE])
     ELSE IF entry.shared # {} \/ entry.exclusive # None
     THEN [locks |-> (rid :> entry) @@ L, exc |-> TRUE]
     ELSE [locks |-> (rid :> [entry EXCEPT !.exclusive = txn_id]) @@ L,
           exc |-> FALSE]

\* mutant: the exclusive holder is not cleared
release_all_SharedOnly(L, txn_id) ==
  LET dropped == [rid \in DOMAIN L |-> [L[rid] EXCEPT !.shared = @ \ {txn_id}]]
      keep == {rid \in DOMAIN L :
                 dropped[rid].shared # {} \/ dropped[rid].exclusive # None}
  IN [rid \in keep |-> dropped[rid]]

release_all(L, txn_id) ==
  LET dropped == [rid \in DOMAIN L |->
                    [shared |-> L[rid].shared \ {txn_id},
                     exclusive |-> IF L[rid].exclusive = txn_id THEN None
                                   ELSE L[rid].exclusive]]
      keep == {rid \in DOMAIN L :
                 dropped[rid].shared # {} \/ dropped[rid].exclusive # None}
  IN [rid \in keep |-> dropped[rid]]

(***************************************************************************)
(* Spec: single-threaded calls of the Query facade                         *)
(***************************************************************************)
EmptyTable ==
  [page_directory |-> <<>>,
   pages |-> <<>>,
   base_record_count |-> 0,
   tail_record_count |-> 0,
   deleted |-> {},
   index |-> [c \in 1..num_columns |-> IF c = key + 1 THEN EmptyIndex ELSE NoIndex]]

InsertArgs == {cols \in [1..num_columns -> Keys \cup Values] :
                 \A i \in 1..num_columns :
                    IF i = key + 1 THEN cols[i] \in Keys ELSE cols[i] \in Values}

UpdateArgs == {cols \in [1..num_columns -> Keys \cup Values \cup {None}] :
                 \A i \in 1..num_columns :
                    IF i = key + 1 THEN cols[i] \in Keys \cup {None}
                    ELSE cols[i] \in Values \cup {None}}

\* the row a caller expects after update(pk, *cols) on a row that was prev
Expected(prev, cols) ==
  [i \in 1..num_columns |-> IF cols[i] = None THEN prev[i] ELSE cols[i]]

\* the live row a caller knows under the primary key it inserted it with
KnownRids(pk) == {r \in DOMAIN hist : hist[r].live /\ hist[r].pk = pk}

UpdatesDone == Cardinality({<<r, j>> \in (DOMAIN hist) \X (2..MaxUpdates + 1) :
                              j <= Len(hist[r].rows)})

TableInit ==
  /\ table = EmptyTable
  /\ qcache = NoCache
  /\ ret = [op |-> "none", ok |-> TRUE]
  /\ hist = <<>>

Insert(cols) ==
  /\ table.base_record_count < MaxBase
  /\ LET rid == table.base_record_count
         r == insert(table, cols, _ts_millis)
     IN /\ table' = r.t
        /\ ret' = [op |-> "insert", ok |-> r.ret]
        /\ hist' = IF r.ret
                   THEN (rid :> [pk |-> cols[key + 1], live |-> TRUE, rows |-> <<cols>>]) @@ hist
                   ELSE hist
  /\ UNCHANGED qcache

Update(pk, cols) ==
  /\ UpdatesDone < MaxUpdates
  /\ LET r == update(table, pk, cols, _ts_millis)
     IN /\ table' = r.t
        /\ ret' = [op |-> "update", ok |-> r.ret]
        /\ hist' = IF r.ret
                   THEN [x \in DOMAIN hist |->
                           IF x \in KnownRids(pk)
                           THEN [hist[x] EXCEPT !.rows =
                                   Append(@, Expected(@[Len(@)], cols))]
                           ELSE hist[x]]
                   ELSE hist
  /\ UNCHANGED qcache

Delete(pk) ==
  /\ LET r == delete(table, pk)
     IN /\ table' = r.t
        /\ ret' = [op |-> "delete", ok |-> r.ret]
        /\ hist' = IF r.ret
                   THEN [x \in DOMAIN hist |->
                           IF x \in KnownRids(pk)
                           THEN [hist[x] EXCEPT !.live = FALSE] ELSE hist[x]]
                   ELSE hist
  /\ UNCHANGED qcache

SelectVersion(pk, rv) ==
  /\ qcache' = CacheAfterSelectVersion(table, qcache, pk, key)
  /\ ret' = [op |-> "select_version",
             ok |-> select_version(table, qcache, pk, key, AllOnes, rv) # <<>>]
  /\ UNCHANGED <<table, hist>>

TableNext ==
  \/ \E cols \in InsertArgs : Insert(cols)
  \/ \E pk \in Keys : \E cols \in UpdateArgs : Update(pk, cols)
  \/ \E pk \in Keys : Delete(pk)
  \/ \E pk \in Keys : \E rv \in {-1, 0} : SelectVersion(pk, rv)

(***************************************************************************)
(* SpecLock: calls of the LockManager                                      *)
(***************************************************************************)
LockTxns == 0..NumTxns - 1

LockInit ==
  /\ locks = <<>>
  /\ lockcall = [op |-> "none", txn |-> None, rid |-> None, result |-> "none",
                 before |-> <<>>]

Outcome(exc) == IF exc THEN "conflict" ELSE "granted"

AcquireShared(txn_id, rid) ==
  LET r == acquire_shared(locks, txn_id, rid)
  IN /\ locks' = r.locks
     /\ lockcall' = [op |-> "acquire_shared", txn |-> txn_id, rid |-> rid,
                     result |-> Outcome(r.exc), before |-> locks]

AcquireExclusive(txn_id, rid) ==
  LET r == acquire_exclusive(locks, txn_id, rid)
  IN /\ locks' = r.locks
     /\ lockcall' = [op |-> "acquire_exclusive", txn |-> txn_id, rid |-> rid,
                     result |-> Outcome(r.exc), before |-> locks]

ReleaseAll(txn_id) ==
  /\ locks' = release_all(locks, txn_id)
  /\ lockcall' = [op |-> "release_all", txn |-> txn_id, rid |-> None,
                  result |-> "none", before |-> locks]

LockNext ==
  \/ \E txn_id \in LockTxns : \E rid \in LockRids : AcquireShared(txn_id, rid)
  \/ \E txn_id \in LockTxns : \E rid \in LockRids : AcquireExclusive(txn_id, rid)
  \/ \E txn_id \in LockTxns : ReleaseAll(txn_id)

(***************************************************************************)
(* lstore/transaction.py                                                   *)
(***************************************************************************)
\* for (table, base_rid, prev_indirection, old_values) in updated_rids:
\* update_row writes the old values back as one more tail; the reset of the
\* indirection calls page.write(slot, prev_indirection), which raises
\* TypeError (Page.write takes the value only) and is swallowed
RECURSIVE AbortUpdates(_, _)
AbortUpdates(t, updated_rids) ==
  IF updated_rids = <<>> THEN t
  ELSE AbortUpdates(
         update_row(t, Head(updated_rids).base_rid, Head(updated_rids).old_values,
                    _ts_millis).t,
         Tail(updated_rids))

\* the primary keys whose index entry equals the bare RID (pk_rid == rid);
\* a posting list [rid] never does
KeysOfBareRid(t, rid) ==
  {pk \in DOMAIN t.index[key + 1].map :
     /\ t.index[key + 1].map[pk].form = "int"
     /\ t.index[key + 1].map[pk].rids = <<rid>>}

\* for (table, rid) in inserted_rids
RECURSIVE AbortInserts(_, _)
AbortInserts(t, inserted_rids) ==
  IF inserted_rids = <<>> THEN t
  ELSE LET rid == Head(inserted_rids)
           t1 == [t EXCEPT !.deleted = @ \cup {rid}]
           found == IF t.index[key + 1].present THEN KeysOfBareRid(t, rid) ELSE {}
           t2 == IF found = {} THEN t1
                 ELSE [t1 EXCEPT !.index[key + 1].map = DictPop(@, Min(found))]
       IN AbortInserts(t2, Tail(inserted_rids))

\* for (table, rid) in deleted_rids: the RID leaves the deleted set and the
\* index gets the bare RID (not a list) under the key read from the base row
RECURSIVE AbortDeletes(_, _)
AbortDeletes(t, deleted_rids) ==
  IF deleted_rids = <<>> THEN t
  ELSE LET rid == Head(deleted_rids)
           t1 == IF rid \notin t.deleted THEN t
                 ELSE LET u == [t EXCEPT !.deleted = @ \ {rid}]
                      IN IF /\ CanRead(u, rid, META_COLUMNS + key)
                            /\ u.index[key + 1].present
                         THEN [u EXCEPT !.index[key + 1].map =
                                 (_read_cell(u, rid, META_COLUMNS + key)
                                    :> [form |-> "int", rids |-> <<rid>>]) @@ @]
                         ELSE u
       IN AbortDeletes(t1, Tail(deleted_rids))

\* Transaction.abort, up to the release of the locks
abort(t, txn) ==
  AbortDeletes(AbortInserts(AbortUpdates(t, txn.updated_rids), txn.inserted_rids),
               txn.deleted_rids)

\* Transaction.commit clears the three lists
commit(txn) ==
  [txn EXCEPT !.inserted_rids = <<>>, !.updated_rids = <<>>, !.deleted_rids = <<>>]

(***************************************************************************)
(* SpecTxn: transactions run by TransactionWorker threads                  *)
(***************************************************************************)
Workers == 0..NumWorkers - 1

\* worker w is constructed with the batch [transaction w]; txn_id = w
Batch(w) == <<w>>

\* the queries a test adds to a transaction: (bound method, args)
OpInsert2 == [op |-> "insert", a |-> None, cols |-> <<2, 10>>]

OpUpdate1 == [op |-> "update", a |-> 1, cols |-> <<None, 11>>]

OpUpdateMissing == [op |-> "update", a |-> 3, cols |-> <<None, 11>>]

OpDelete1 == [op |-> "delete", a |-> 1, cols |-> <<>>]

OpIncrement1 == [op |-> "increment", a |-> 1, cols |-> <<1>>]

OpLockX0 == [op |-> "acquire_exclusive", a |-> 0, cols |-> <<>>]

\* select(3, key, [1, 1]): no row has key 3
OpSelect3 == [op |-> "select", a |-> 3, cols |-> <<>>]

\* sum(1, 2, 1) over the rows of the table
OpSum12 == [op |-> "sum", a |-> 1, cols |-> <<2, 1>>]

\* sum(5, 6, 1): no key lies in the range
OpSum56 == [op |-> "sum", a |-> 5, cols |-> <<6, 1>>]

\* add_query(q.delete, table) without the primary key: query(*args) raises
\* TypeError (a required argument is missing)
OpDeleteNoArg == [op |-> "TypeError", a |-> None, cols |-> <<>>]

\* the row the main thread inserts before the workers start
SetupRow == <<1, 10>>

Programs ==
  { <<OpIncrement1>>,
    <<OpUpdate1>>,
    <<OpLockX0, OpUpdate1>>,
    <<OpDelete1, OpUpdateMissing>>,
    <<OpUpdate1, OpUpdateMissing>>,
    <<OpInsert2, OpUpdateMissing>>,
    <<OpSelect3, OpSum12, OpUpdate1>>,
    <<OpSum56, OpUpdate1>>,
    <<OpLockX0, OpUpdate1, OpDeleteNoArg>> }

IsPrefix(p, q) == Len(p) <= Len(q) /\ SubSeq(q, 1, Len(p)) = p

NewRun(t) == [snap |-> t, did |-> <<>>, calls |-> <<>>]

TxnInit ==
  /\ txns = [x \in Workers |->
               [queries |-> <<>>, inserted_rids |-> <<>>, updated_rids |-> <<>>,
                deleted_rids |-> <<>>]]
  /\ wk = [w \in Workers |->
             [pc |-> "new", ti |-> 1, retry_count |-> 0, stats |-> <<>>,
              result |-> 0, qi |-> 1, cur |-> None, txn_id |-> None]]
  /\ seen = [w \in Workers |-> NewRun(EmptyTable)]

Started == \E w \in Workers : wk[w].pc # "new"

\* the main thread fills the table through the facade
SetupInsert ==
  /\ ~Started
  /\ table = EmptyTable
  /\ table' = insert(table, SetupRow, _ts_millis).t
  /\ UNCHANGED <<qcache, ret, hist, lockVars, txnVars>>

\* Transaction.add_query
AddQuery(x, q) ==
  /\ ~Started
  /\ \E p \in Programs : IsPrefix(Append(txns[x].queries, q), p)
  /\ txns' = [txns EXCEPT ![x].queries = Append(@, q)]
  /\ UNCHANGED <<tableVars, lockVars, wk, seen>>

\* the state of a worker thread that enters transaction.run()
EnterRun(w_rec, txn_id) ==
  [w_rec EXCEPT !.pc = "run", !.qi = 1, !.cur = None, !.txn_id = txn_id]

\* TransactionWorker.run for every worker: the threads start; each calls
\* run() of its first transaction, which publishes txn_id thread-locally
Start ==
  /\ ~Started
  /\ \A x \in Workers : txns[x].queries \in Programs
  /\ wk' = [w \in Workers |-> EnterRun(wk[w], Batch(w)[1])]
  /\ seen' = [w \in Workers |-> NewRun(table)]
  /\ UNCHANGED <<tableVars, lockVars, txns>>

CurTxn(w) == Batch(w)[wk[w].ti]

CurOp(w) == txns[CurTxn(w)].queries[wk[w].qi]

\* after a query returned result: abort on False, else the next query, or
\* commit after the last one
AfterQuery(w, result_is_false) ==
  IF result_is_false THEN [wk[w] EXCEPT !.pc = "abort"]
  ELSE IF wk[w].qi >= Len(txns[CurTxn(w)].queries)
  THEN [wk[w] EXCEPT !.pc = "commit", !.cur = None]
  ELSE [wk[w] EXCEPT !.pc = "run", !.qi = @ + 1, !.cur = None]

Did(w, kind, rid, pk, row) ==
  [seen EXCEPT ![w].did = Append(@, [kind |-> kind, rid |-> rid, pk |-> pk, row |-> row])]

\* the Python values a query returns: bool (val 1 or 0), int, list (val its
\* length), None; "LockException" stands for the raised exception
PyBool(b) == [type |-> "bool", val |-> IF b THEN 1 ELSE 0]

PyInt(n) == [type |-> "int", val |-> n]

PyList(l) == [type |-> "list", val |-> Len(l)]

PyNone == [type |-> "NoneType", val |-> None]

Raised == [type |-> "LockException", val |-> None]

RaisedOther == [type |-> "TypeError", val |-> None]

\* result == False: True for False and, bool being an int, also for 0;
\* a list or None never equals False
EqFalse(result) == result.type \in {"bool", "int"} /\ result.val = 0

\* the query at position qi returned (or raised) result
Ran(s, w, result) ==
  [s EXCEPT ![w].calls = Append(@, [qi |-> wk[w].qi, result |-> result])]

\* result = query(*args) for Query.insert
RunInsert(w) ==
  /\ wk[w].pc = "run" /\ CurOp(w).op = "insert"
  /\ LET r == insert(table, CurOp(w).cols, _ts_millis)
     IN /\ table' = r.t
        /\ wk' = [wk EXCEPT ![w] = AfterQuery(w, EqFalse(PyBool(r.ret)))]
        /\ seen' = Ran(IF r.ret
                       THEN Did(w, "insert", table.base_record_count,
                                CurOp(w).cols[key + 1], CurOp(w).cols)
                       ELSE seen, w, PyBool(r.ret))
  /\ UNCHANGED <<qcache, ret, hist, lockVars, txns>>

\* result = query(*args) for Query.update
RunUpdate(w) ==
  /\ wk[w].pc = "run" /\ CurOp(w).op = "update"
  /\ LET r == update(table, CurOp(w).a, CurOp(w).cols, _ts_millis)
     IN /\ table' = r.t
        /\ wk' = [wk EXCEPT ![w] = AfterQuery(w, EqFalse(PyBool(r.ret)))]
        /\ seen' = Ran(IF r.ret
                       THEN Did(w, "update", _pk_to_rid(table, CurOp(w).a), CurOp(w).a,
                                CurOp(w).cols)
                       ELSE seen, w, PyBool(r.ret))
  /\ UNCHANGED <<qcache, ret, hist, lockVars, txns>>

\* result = query(*args) for Query.delete
RunDelete(w) ==
  /\ wk[w].pc = "run" /\ CurOp(w).op = "delete"
  /\ LET r == delete(table, CurOp(w).a)
     IN /\ table' = r.t
        /\ wk' = [wk EXCEPT ![w] = AfterQuery(w, EqFalse(PyBool(r.ret)))]
        /\ seen' = Ran(IF r.ret
                       THEN Did(w, "delete", _pk_to_rid(table, CurOp(w).a), CurOp(w).a, <<>>)
                       ELSE seen, w, PyBool(r.ret))
  /\ UNCHANGED <<qcache, ret, hist, lockVars, txns>>

\* result = query(*args) for Query.select: a list of Records
RunSelect(w) ==
  /\ wk[w].pc = "run" /\ CurOp(w).op = "select"
  /\ LET res == select(table, CurOp(w).a, key, AllOnes)
     IN /\ wk' = [wk EXCEPT ![w] = AfterQuery(w, EqFalse(PyList(res)))]
        /\ seen' = Ran(seen, w, PyList(res))
  /\ UNCHANGED <<tableVars, lockVars, txns>>

\* result = query(*args) for Query.sum: the total, an int
RunSum(w) ==
  /\ wk[w].pc = "run" /\ CurOp(w).op = "sum"
  /\ LET total == sum(table, CurOp(w).a, CurOp(w).cols[1], CurOp(w).cols[2])
     IN /\ wk' = [wk EXCEPT ![w] = AfterQuery(w, EqFalse(PyInt(total)))]
        /\ seen' = Ran(seen, w, PyInt(total))
  /\ UNCHANGED <<tableVars, lockVars, txns>>

\* Query.increment, first half: res = self.select(key, ...); cur[column] + 1
RunIncrementSelect(w) ==
  /\ wk[w].pc = "run" /\ CurOp(w).op = "increment"
  /\ LET res == select(table, CurOp(w).a, key, AllOnes)
     IN /\ wk' = [wk EXCEPT ![w] =
                    IF res = <<>> THEN AfterQuery(w, EqFalse(PyBool(FALSE)))
                    ELSE [@ EXCEPT !.pc = "incr",
                                   !.cur = res[1][CurOp(w).cols[1] + 1] + 1]]
        /\ seen' = IF res = <<>> THEN Ran(seen, w, PyBool(FALSE)) ELSE seen
  /\ UNCHANGED <<tableVars, lockVars, txns>>

\* Query.increment, second half: return self.update(key, *filled)
RunIncrementUpdate(w) ==
  /\ wk[w].pc = "incr"
  /\ LET filled == [i \in 1..num_columns |->
                      IF i = CurOp(w).cols[1] + 1 THEN wk[w].cur ELSE None]
         r == update(table, CurOp(w).a, filled, _ts_millis)
     IN /\ table' = r.t
        /\ wk' = [wk EXCEPT ![w] = AfterQuery(w, EqFalse(PyBool(r.ret)))]
        /\ seen' = Ran(IF r.ret
                       THEN Did(w, "update", _pk_to_rid(table, CurOp(w).a), CurOp(w).a, filled)
                       ELSE seen, w, PyBool(r.ret))
  /\ UNCHANGED <<qcache, ret, hist, lockVars, txns>>

\* result = query(*args) for lock_manager.acquire_exclusive(txn_id, rid):
\* LockException is caught by run(), which aborts; else the result is None
RunAcquireExclusive(w) ==
  /\ wk[w].pc = "run" /\ CurOp(w).op = "acquire_exclusive"
  /\ LET r == acquire_exclusive(locks, wk[w].txn_id, CurOp(w).a)
     IN /\ locks' = r.locks
        /\ lockcall' = [op |-> "acquire_exclusive", txn |-> wk[w].txn_id,
                        rid |-> CurOp(w).a, result |-> Outcome(r.exc), before |-> locks]
        /\ wk' = [wk EXCEPT ![w] = AfterQuery(w, r.exc \/ EqFalse(PyNone))]
        /\ seen' = Ran(seen, w, IF r.exc THEN Raised ELSE PyNone)
  /\ UNCHANGED <<tableVars, txns>>

\* query(*args) raises an exception other than LockException: run() has no
\* handler for it, its finally clears the thread-local ids, and the exception
\* leaves run() and __run, which ends the worker thread
RunRaises(w) ==
  /\ wk[w].pc = "run" /\ CurOp(w).op = "TypeError"
  /\ wk' = [wk EXCEPT ![w] = [@ EXCEPT !.pc = "dead", !.txn_id = None, !.cur = None]]
  /\ seen' = Ran(seen, w, RaisedOther)
  /\ UNCHANGED <<tableVars, lockVars, txns>>

\* the worker's loop after run() returned: the next attempt, the next
\* transaction of the batch, or the end of the thread
AfterRun(w, committed) ==
  LET retry_count == IF committed THEN wk[w].retry_count ELSE wk[w].retry_count + 1
      again == ~committed /\ retry_count < MAX_RETRIES
      ti == IF again THEN wk[w].ti ELSE wk[w].ti + 1
      rec == [wk[w] EXCEPT
                !.retry_count = IF again THEN retry_count ELSE 0,
                !.ti = ti,
                !.stats = IF again THEN @ ELSE Append(@, committed),
                !.result = IF committed THEN @ + 1 ELSE @]
  IN IF ti > Len(Batch(w))
     THEN [rec EXCEPT !.pc = "done", !.txn_id = None, !.cur = None]
     ELSE EnterRun(rec, Batch(w)[ti])

\* return self.commit()
Commit(w) ==
  /\ wk[w].pc = "commit"
  /\ txns' = [txns EXCEPT ![CurTxn(w)] = commit(@)]
  /\ locks' = release_all(locks, wk[w].txn_id)
  /\ lockcall' = [op |-> "release_all", txn |-> wk[w].txn_id, rid |-> None,
                  result |-> "none", before |-> locks]
  /\ wk' = [wk EXCEPT ![w] = AfterRun(w, TRUE)]
  /\ seen' = [seen EXCEPT ![w] = NewRun(table)]
  /\ UNCHANGED tableVars

\* return self.abort()
Abort(w) ==
  /\ wk[w].pc = "abort"
  /\ table' = abort(table, txns[CurTxn(w)])
  /\ locks' = release_all(locks, wk[w].txn_id)
  /\ lockcall' = [op |-> "release_all", txn |-> wk[w].txn_id, rid |-> None,
                  result |-> "none", before |-> locks]
  /\ wk' = [wk EXCEPT ![w] = AfterRun(w, FALSE)]
  /\ seen' = [seen EXCEPT ![w] = NewRun(table')]
  /\ UNCHANGED <<qcache, ret, hist, txns>>

TxnNext ==
  \/ SetupInsert
  \/ \E x \in Workers : \E p \in Programs : \E i \in 1..Len(p) : AddQuery(x, p[i])
  \/ Start
  \/ \E w \in Workers : RunInsert(w)
  \/ \E w \in Workers : RunUpdate(w)
  \/ \E w \in Workers : RunDelete(w)
  \/ \E w \in Workers : RunSelect(w)
  \/ \E w \in Workers : RunSum(w)
  \/ \E w \in Workers : RunIncrementSelect(w)
  \/ \E w \in Workers : RunIncrementUpdate(w)
  \/ \E w \in Workers : RunAcquireExclusive(w)
  \/ \E w \in Workers : RunRaises(w)
  \/ \E w \in Workers : Commit(w)
  \/ \E w \in Workers : Abort(w)

(***************************************************************************)
(* lstore/pagebuffer.py, with Page.toJSON / fromJSON and the Table hooks   *)
(***************************************************************************)
\* Page.toJSON: a page is its data list; num_records is kept equal to its length
toJSON(page) == [num_records |-> Len(page), data |-> page]

\* Page.fromJSON
fromJSON(json_data) == SubSeq(json_data.data, 1, Len(json_data.data))

\* Bufferpool._load_page through Table.get_page: the file, or an empty Page
_load_page(d, page_id) ==
  IF page_id \in DOMAIN d THEN fromJSON(d[page_id]) ELSE <<>>

\* Bufferpool.write_page_to_disk through Table.write_page
write_page_to_disk(d, page_id, page) == (page_id :> toJSON(page)) @@ d

pageInBuffer(page, is_dirty, is_pinned, last_access_time) ==
  [page |-> page, is_dirty |-> is_dirty, is_pinned |-> is_pinned,
   last_access_time |-> last_access_time]

\* the frame with the smallest last_access_time among cands; get_page gives
\* every frame its own clock value, so the strict < of the loop never ties
Oldest(pages, cands) ==
  CHOOSE pid \in cands :
    \A q \in cands : pages[pid].last_access_time <= pages[q].last_access_time

\* victim_id = None: page ids are tuples, the empty one stands for no page
NoPid == <<>>

\* mutant: the oldest clean frame, pinned or not
Victim_IgnoresPins(pages) ==
  LET clean == {pid \in DOMAIN pages : ~pages[pid].is_dirty}
  IN IF clean # {} THEN Oldest(pages, clean)
     ELSE IF DOMAIN pages # {} THEN Oldest(pages, DOMAIN pages)
     ELSE NoPid

\* mutant: the oldest unpinned frame, dirty or not
Victim_IgnoresDirty(pages) ==
  LET unpinned == {pid \in DOMAIN pages : ~pages[pid].is_pinned}
  IN IF unpinned # {} THEN Oldest(pages, unpinned) ELSE NoPid

\* the victim of Bufferpool._evict_page, or NoPid
Victim(pages) ==
  LET clean == {pid \in DOMAIN pages : ~pages[pid].is_pinned /\ ~pages[pid].is_dirty}
      unpinned == {pid \in DOMAIN pages : ~pages[pid].is_pinned}
  IN IF clean # {} THEN Oldest(pages, clean)
     ELSE IF unpinned # {} THEN Oldest(pages, unpinned)
     ELSE NoPid

\* mutant: a dirty victim is removed without being written
_evict_page_NoWriteBack(pages, d) ==
  LET victim_id == Victim(pages)
  IN IF victim_id = NoPid THEN [pages |-> pages, disk |-> d, exc |-> TRUE]
     ELSE [pages |-> [q \in DOMAIN pages \ {victim_id} |-> pages[q]],
           disk |-> d,
           exc |-> FALSE]

\* Bufferpool._evict_page: pages and disk afterwards, exc when all are pinned
_evict_page(pages, d) ==
  LET victim_id == Victim(pages)
  IN IF victim_id = NoPid THEN [pages |-> pages, disk |-> d, exc |-> TRUE]
     ELSE [pages |-> [q \in DOMAIN pages \ {victim_id} |-> pages[q]],
           disk |-> IF pages[victim_id].is_dirty
                    THEN write_page_to_disk(d, victim_id, pages[victim_id].page)
                    ELSE d,
           exc |-> FALSE]

\* mutant: the frame is installed although nothing could be evicted
pool_get_page_InstallsWhenPinned(bp, d, page_id) ==
  LET clock == bp.clock + 1
  IN IF page_id \in DOMAIN bp.pages
     THEN [bp |-> [pages |-> [bp.pages EXCEPT ![page_id].last_access_time = clock],
                   clock |-> clock],
           disk |-> d, exc |-> FALSE]
     ELSE LET e == IF Cardinality(DOMAIN bp.pages) >= BUFFERPOOL_SIZE
                   THEN _evict_page(bp.pages, d)
                   ELSE [pages |-> bp.pages, disk |-> d, exc |-> FALSE]
          IN [bp |-> [pages |-> (page_id :> pageInBuffer(_load_page(e.disk, page_id),
                                                         FALSE, FALSE, clock))
                                  @@ e.pages,
                      clock |-> clock],
              disk |-> e.disk, exc |-> e.exc]

\* Bufferpool.get_page
pool_get_page(bp, d, page_id) ==
  LET clock == bp.clock + 1
  IN IF page_id \in DOMAIN bp.pages
     THEN [bp |-> [pages |-> [bp.pages EXCEPT ![page_id].last_access_time = clock],
                   clock |-> clock],
           disk |-> d, exc |-> FALSE]
     ELSE LET e == IF Cardinality(DOMAIN bp.pages) >= BUFFERPOOL_SIZE
                   THEN _evict_page(bp.pages, d)
                   ELSE [pages |-> bp.pages, disk |-> d, exc |-> FALSE]
          IN IF e.exc
             THEN [bp |-> [pages |-> bp.pages, clock |-> clock], disk |-> d, exc |-> TRUE]
             ELSE [bp |-> [pages |-> (page_id :> pageInBuffer(_load_page(e.disk, page_id),
                                                              FALSE, FALSE, clock))
                                       @@ e.pages,
                           clock |-> clock],
                   disk |-> e.disk, exc |-> FALSE]

pin_page(pages, page_id) ==
  IF page_id \in DOMAIN pages THEN [pages EXCEPT ![page_id].is_pinned = TRUE] ELSE pages

unpin_page(pages, page_id) ==
  IF page_id \in DOMAIN pages THEN [pages EXCEPT ![page_id].is_pinned = FALSE] ELSE pages

mark_dirty(pages, page_id) ==
  IF page_id \in DOMAIN pages THEN [pages EXCEPT ![page_id].is_dirty = TRUE] ELSE pages

\* Bufferpool.flush_all: the files written, in any order of the frames
RECURSIVE FlushDisk(_, _, _)
FlushDisk(pages, d, todo) ==
  IF todo = {} THEN d
  ELSE LET pid == CHOOSE q \in todo : TRUE
       IN FlushDisk(pages,
                    IF pages[pid].is_dirty THEN write_page_to_disk(d, pid, pages[pid].page)
                    ELSE d,
                    todo \ {pid})

\* mutant: the dirty flags are cleared and nothing is written
flush_all_ClearsOnly(pages, d) ==
  [pages |-> [pid \in DOMAIN pages |-> [pages[pid] EXCEPT !.is_dirty = FALSE]],
   disk |-> d]

flush_all(pages, d) ==
  [pages |-> [pid \in DOMAIN pages |-> [pages[pid] EXCEPT !.is_dirty = FALSE]],
   disk |-> FlushDisk(pages, d, DOMAIN pages)]

\* Bufferpool.evict_all: while self.pages: self._evict_page()
RECURSIVE evict_all(_, _)
evict_all(pages, d) ==
  IF DOMAIN pages = {} THEN [pages |-> pages, disk |-> d, exc |-> FALSE]
  ELSE LET e == _evict_page(pages, d)
       IN IF e.exc THEN e ELSE evict_all(e.pages, e.disk)

(***************************************************************************)
(* SpecPool: calls of the Bufferpool by its clients                        *)
(***************************************************************************)
\* page ids "<table>_<col>_0_1" of one table: one more than the pool has frames
PoolPids == {_page_id(c, 0, TRUE) : c \in 0..BUFFERPOOL_SIZE}

\* the values a client appends
PageValues == {7}

PoolInit ==
  /\ bufferpool = [pages |-> <<>>, clock |-> 0]
  /\ disk = <<>>
  /\ poolcall = [op |-> "none", pid |-> NoPid, exc |-> FALSE, before |-> <<>>]

Called(op, pid, exc) ==
  poolcall' = [op |-> op, pid |-> pid, exc |-> exc, before |-> bufferpool.pages]

GetPage(page_id) ==
  /\ bufferpool.clock < MaxClock
  /\ LET r == pool_get_page(bufferpool, disk, page_id)
     IN /\ bufferpool' = r.bp
        /\ disk' = r.disk
        /\ Called("get_page", page_id, r.exc)

PinPage(page_id) ==
  /\ bufferpool' = [bufferpool EXCEPT !.pages = pin_page(@, page_id)]
  /\ Called("pin_page", page_id, FALSE)
  /\ UNCHANGED disk

UnpinPage(page_id) ==
  /\ bufferpool' = [bufferpool EXCEPT !.pages = unpin_page(@, page_id)]
  /\ Called("unpin_page", page_id, FALSE)
  /\ UNCHANGED disk

MarkDirty(page_id) ==
  /\ bufferpool' = [bufferpool EXCEPT !.pages = mark_dirty(@, page_id)]
  /\ Called("mark_dirty", page_id, FALSE)
  /\ UNCHANGED disk

\* a client appends to the Page object that get_page returned (Page.write)
PageWrite(page_id, value) ==
  /\ page_id \in DOMAIN bufferpool.pages
  /\ has_capacity(bufferpool.pages[page_id].page)
  /\ Len(bufferpool.pages[page_id].page) < MaxPageLen
  /\ bufferpool' = [bufferpool EXCEPT !.pages[page_id].page = Append(@, value)]
  /\ Called("write", page_id, FALSE)
  /\ UNCHANGED disk

FlushAll ==
  /\ LET r == flush_all(bufferpool.pages, disk)
     IN /\ bufferpool' = [bufferpool EXCEPT !.pages = r.pages]
        /\ disk' = r.disk
  /\ Called("flush_all", NoPid, FALSE)

EvictAll ==
  /\ LET r == evict_all(bufferpool.pages, disk)
     IN /\ bufferpool' = [bufferpool EXCEPT !.pages = r.pages]
        /\ disk' = r.disk
        /\ Called("evict_all", NoPid, r.exc)

PoolNext ==
  \/ \E page_id \in PoolPids : GetPage(page_id)
  \/ \E page_id \in PoolPids : PinPage(page_id)
  \/ \E page_id \in PoolPids : UnpinPage(page_id)
  \/ \E page_id \in PoolPids : MarkDirty(page_id)
  \/ \E page_id \in PoolPids : \E value \in PageValues : PageWrite(page_id, value)
  \/ FlushAll
  \/ EvictAll

(***************************************************************************)
(* SpecPins: get_page, pin_page and unpin_page with the pins counted       *)
(***************************************************************************)
Writers == 1..NumWriters

Inserters == 1..NumInserters

ClientInit ==
  /\ pins = <<>>
  /\ written = <<>>
  /\ pending = {}
  /\ writers = [w \in Writers |->
                  [pc |-> "idle", pid |-> NoPid, detached |-> FALSE, page |-> <<>>,
                   finished |-> [q \in PoolPids |-> 0]]]
  /\ inserters = [w \in Inserters |->
                    [pc |-> "idle", cols |-> <<>>, rid |-> None, base_rid |-> None,
                     record |-> <<>>, count |-> 0,
                     inserted |-> None, row |-> <<>>, updated |-> None, calls |-> 0]]

\* the outstanding pins of the frames that stay; a frame installed by the
\* call starts with none
PinsKept(pages_after) ==
  [p \in DOMAIN pages_after |->
     IF p \in DOMAIN bufferpool.pages /\ p \in DOMAIN pins THEN pins[p] ELSE 0]

CountedGet(page_id) ==
  /\ GetPage(page_id)
  /\ pins' = PinsKept(bufferpool'.pages)

\* pin_page by a client that holds fewer than MaxPins pins on the page
CountedPin(page_id) ==
  /\ page_id \in DOMAIN pins => pins[page_id] < MaxPins
  /\ PinPage(page_id)
  /\ pins' = [p \in DOMAIN pins |-> IF p = page_id THEN pins[p] + 1 ELSE pins[p]]

\* unpin_page by a client that has pinned the page
CountedUnpin(page_id) ==
  /\ page_id \in DOMAIN pins
  /\ pins[page_id] > 0
  /\ UnpinPage(page_id)
  /\ pins' = [pins EXCEPT ![page_id] = @ - 1]

PinsNext ==
  \/ \E page_id \in PoolPids : CountedGet(page_id)
  \/ \E page_id \in PoolPids : CountedPin(page_id)
  \/ \E page_id \in PoolPids : CountedUnpin(page_id)

(***************************************************************************)
(* SpecClient: one thread that gets pages, writes to the resident page and *)
(* marks it dirty before the page leaves the pool                          *)
(***************************************************************************)
ClientValues == {7, 8}

\* what the client last wrote to the slots of a page
Written(page_id) == IF page_id \in DOMAIN written THEN written[page_id] ELSE <<>>

\* get_page; a page that still waits for its mark_dirty is not pushed out
ClientGet(page_id) ==
  /\ bufferpool.clock < MaxGets
  /\ LET r == pool_get_page(bufferpool, disk, page_id)
     IN /\ pending \subseteq DOMAIN r.bp.pages
        /\ bufferpool' = r.bp
        /\ disk' = r.disk
        /\ Called("get_page", page_id, r.exc)
  /\ UNCHANGED <<written, pending>>

\* Page.write on the page get_page returned, which is resident
ClientAppend(page_id, value) ==
  /\ PageWrite(page_id, value)
  /\ written' = (page_id :> Append(Written(page_id), value)) @@ written
  /\ pending' = pending \cup {page_id}

\* Page.write_at / page.data[slot] = value on the resident page
ClientOverwrite(page_id, slot, value) ==
  /\ page_id \in DOMAIN bufferpool.pages
  /\ slot < Len(bufferpool.pages[page_id].page)
  /\ bufferpool' = [bufferpool EXCEPT !.pages[page_id].page[slot + 1] = value]
  /\ Called("write_at", page_id, FALSE)
  /\ written' = (page_id :> [Written(page_id) EXCEPT ![slot + 1] = value]) @@ written
  /\ pending' = pending \cup {page_id}
  /\ UNCHANGED disk

ClientMarkDirty(page_id) ==
  /\ MarkDirty(page_id)
  /\ pending' = pending \ {page_id}
  /\ UNCHANGED written

ClientNext ==
  \/ \E page_id \in PoolPids : ClientGet(page_id)
  \/ \E page_id \in PoolPids : \E value \in ClientValues : ClientAppend(page_id, value)
  \/ \E page_id \in PoolPids : \E slot \in 0..MaxPageLen - 1 : \E value \in ClientValues :
        ClientOverwrite(page_id, slot, value)
  \/ \E page_id \in PoolPids : ClientMarkDirty(page_id)

(***************************************************************************)
(* SpecWriters: threads that run the body of the loop of                   *)
(* _write_to_base_pages on the shared Bufferpool.  The Bufferpool has no   *)
(* latch; each of its methods and Page.write is taken as one step, and the *)
(* steps of the threads interleave freely.                                 *)
(***************************************************************************)
\* A thread holds the Page object get_page returned.  While the frame of
\* that get is resident the object is the frame's page; once the frame is
\* removed the object is detached: the thread still writes to it, the pool
\* does not know it, and a later load of the same page is another object.
Detach(pages_after) ==
  [w \in Writers |->
     IF /\ writers[w].pc # "idle"
        /\ ~writers[w].detached
        /\ writers[w].pid \notin DOMAIN pages_after
     THEN [writers[w] EXCEPT !.detached = TRUE,
                             !.page = bufferpool.pages[writers[w].pid].page]
     ELSE writers[w]]

\* page = self.pageBuffer.get_page(page_id)
WriterGet(w, page_id) ==
  /\ writers[w].pc = "idle"
  /\ bufferpool.clock < MaxClock
  /\ LET r == pool_get_page(bufferpool, disk, page_id)
     IN /\ bufferpool' = r.bp
        /\ disk' = r.disk
        /\ Called("get_page", page_id, r.exc)
        /\ writers' = IF r.exc THEN writers
                      ELSE [Detach(r.bp.pages) EXCEPT
                              ![w].pc = "got", ![w].pid = page_id,
                              ![w].detached = FALSE, ![w].page = <<>>]

\* self.pageBuffer.pin_page(page_id)
WriterPin(w) ==
  /\ writers[w].pc = "got"
  /\ bufferpool' = [bufferpool EXCEPT !.pages = pin_page(@, writers[w].pid)]
  /\ Called("pin_page", writers[w].pid, FALSE)
  /\ writers' = [writers EXCEPT ![w].pc = "pinned"]
  /\ UNCHANGED disk

\* slot = page.write(value): thread w appends the value w; OverflowError
\* ends the call with the frame left as it is
WriterWrite(w) ==
  /\ writers[w].pc = "pinned"
  /\ LET page == IF writers[w].detached THEN writers[w].page
                 ELSE bufferpool.pages[writers[w].pid].page
     IN IF ~has_capacity(page)
        THEN /\ writers' = [writers EXCEPT ![w].pc = "idle"]
             /\ Called("write", writers[w].pid, TRUE)
             /\ UNCHANGED bufferpool
        ELSE /\ Called("write", writers[w].pid, FALSE)
             /\ IF writers[w].detached
                THEN /\ writers' = [writers EXCEPT ![w].pc = "wrote",
                                                   ![w].page = Append(@, w)]
                     /\ UNCHANGED bufferpool
                ELSE /\ writers' = [writers EXCEPT ![w].pc = "wrote"]
                     /\ bufferpool' = [bufferpool EXCEPT
                                         !.pages[writers[w].pid].page = Append(@, w)]
  /\ UNCHANGED disk

\* self.pageBuffer.mark_dirty(page_id)
WriterMarkDirty(w) ==
  /\ writers[w].pc = "wrote"
  /\ bufferpool' = [bufferpool EXCEPT !.pages = mark_dirty(@, writers[w].pid)]
  /\ Called("mark_dirty", writers[w].pid, FALSE)
  /\ writers' = [writers EXCEPT ![w].pc = "marked"]
  /\ UNCHANGED disk

\* self.pageBuffer.unpin_page(page_id); the write of the column is finished
WriterUnpin(w) ==
  /\ writers[w].pc = "marked"
  /\ bufferpool' = [bufferpool EXCEPT !.pages = unpin_page(@, writers[w].pid)]
  /\ Called("unpin_page", writers[w].pid, FALSE)
  /\ writers' = [writers EXCEPT ![w].pc = "idle",
                                 ![w].finished[writers[w].pid] = @ + 1]
  /\ UNCHANGED disk

WritersNext ==
  \/ \E w \in Writers : \E page_id \in PoolPids : WriterGet(w, page_id)
  \/ \E w \in Writers : WriterPin(w)
  \/ \E w \in Writers : WriterWrite(w)
  \/ \E w \in Writers : WriterMarkDirty(w)
  \/ \E w \in Writers : WriterUnpin(w)

(***************************************************************************)
(* lstore/table.py : merge and recover                                     *)
(***************************************************************************)
\* the body of the loop of merge for one live base RID: the latest values go
\* into the base cells, INDIRECTION and SCHEMA_ENCODING of the base row to 0
RECURSIVE MergeCells(_, _, _, _)
MergeCells(t, rid, latest_vals, i) ==
  IF i >= Len(latest_vals) THEN t
  ELSE MergeCells(write_at(t, rid, META_COLUMNS + i, latest_vals[i + 1]),
                  rid, latest_vals, i + 1)

MergeRow(t, rid) ==
  LET latest_vals == _materialize_latest_user_values(t, rid)
      t1 == MergeCells(t, rid, latest_vals, 0)
      t2 == write_at(t1, rid, INDIRECTION_COLUMN, 0)
  IN write_at(t2, rid, SCHEMA_ENCODING_COLUMN, 0)

RECURSIVE MergeRows(_, _)
MergeRows(t, rids) ==
  IF rids = <<>> THEN t ELSE MergeRows(MergeRow(t, Head(rids)), Tail(rids))

\* Table.merge
merge(t) ==
  MergeRows(t, SortedSeq({r \in BaseRids(t) : r \notin t.deleted}))

\* the page files after Bufferpool.flush_all: a page is dirty from its write
\* until it is written, so after the flush every page has its file
FlushedFiles(t) == [pid \in DOMAIN t.pages |-> toJSON(t.pages[pid])]

\* the (file, slot) pairs of the first pass of recover: RID-column files only
RidSlots(files) ==
  UNION {{<<pid, slot>> : slot \in 0..Len(fromJSON(files[pid])) - 1} :
           pid \in {q \in DOMAIN files : q[1] = RID_COLUMN}}

RidAt(files, e) == fromJSON(files[e[1]])[e[2] + 1]

\* max(...) over the base RIDs + 1, and over the tail sequence numbers + 1
NextCount(S) == IF S = {} THEN 0 ELSE (CHOOSE x \in S : \A y \in S : y <= x) + 1

\* Table.recover on a new Table object (deleted = set(), no index but the
\* one that Index(self) builds on the key column)
recover(files) ==
  LET found == RidSlots(files)
      rids == {RidAt(files, e) : e \in found}
      dir == [rid \in rids |->
                LET e == CHOOSE x \in found : RidAt(files, x) = rid
                IN [c \in 1.._total_cols |->
                      <<_page_id(c - 1, e[1][2], e[1][3] = 1), e[2]>>]]
      base == {RidAt(files, e) : e \in {x \in found : x[1][3] = 1}}
      tail == {RidAt(files, e) - TAIL_RID_START :
                 e \in {x \in found : x[1][3] = 0 /\ RidAt(files, x) >= TAIL_RID_START}}
      t0 == [page_directory |-> dir,
             pages |-> [pid \in DOMAIN files |-> fromJSON(files[pid])],
             base_record_count |-> NextCount(base),
             tail_record_count |-> NextCount(tail),
             deleted |-> {},
             index |-> [c \in 1..num_columns |-> NoIndex]]
  IN create_index(t0, key).t


(***************************************************************************)
(* SpecStore: the facade with secondary indexes, aggregates, merge and     *)
(* recovery                                                                *)
(***************************************************************************)
\* table.index.create_index(column_number)
CreateIndex(column_number) ==
  /\ LET r == create_index(table, column_number)
     IN /\ table' = r.t
        /\ ret' = [op |-> "create_index", ok |-> ~r.exc]
  /\ UNCHANGED <<qcache, hist>>

\* table.merge(), as Database.close calls it
Merge ==
  /\ table' = merge(table)
  /\ ret' = [op |-> "merge", ok |-> TRUE]
  /\ UNCHANGED <<qcache, hist>>

\* bufferpool.flush_all(), then Table.recover on a new Table object of a
\* new Database (Database.open)
Recover ==
  /\ table' = recover(FlushedFiles(table))
  /\ qcache' = NoCache
  /\ ret' = [op |-> "recover", ok |-> TRUE]
  /\ UNCHANGED hist

\* insert calls with one argument too few or too many
BadInsertArgs == {<<k>> : k \in Keys} \cup {<<k, v, v>> : k \in Keys, v \in Values}

\* Query.sum(start_range, end_range, aggregate_column_index)
Sum(start_range, end_range, aggregate_column_index) ==
  /\ ret' = [op |-> "sum", ok |-> TRUE]
  /\ UNCHANGED <<table, qcache, hist>>

\* Query(table).sum_version(...) of a new Query object
SumVersion(start_range, end_range, aggregate_column_index, relative_version) ==
  /\ ret' = [op |-> "sum_version",
             ok |-> ~sum_version(table, NoCache, start_range, end_range,
                                 aggregate_column_index, relative_version).exc]
  /\ UNCHANGED <<table, qcache, hist>>

StoreNext ==
  \/ \E cols \in InsertArgs : Insert(cols)
  \/ \E cols \in BadInsertArgs : Insert(cols)
  \/ \E pk \in Keys : \E cols \in UpdateArgs :
        table.tail_record_count < MaxTails /\ Update(pk, cols)
  \/ \E pk \in Keys : Delete(pk)
  \/ \E column_number \in 0..num_columns - 1 : CreateIndex(column_number)
  \/ Merge
  \/ Recover
  \/ \E lo \in Keys : \E hi \in Keys : \E c \in 0..num_columns - 1 : Sum(lo, hi, c)
  \/ \E lo \in Keys : \E hi \in Keys : \E c \in 0..num_columns - 1 :
        \E rv \in {-1, 0} : SumVersion(lo, hi, c, rv)

(***************************************************************************)
(* bplustreelib/bplustree.py                                               *)
(***************************************************************************)
\* BPlusTree.__init__(self, order=4)
DefaultOrder == 4

\* BPlusTreeNode(is_leaf); a node is named by its place in nodes, and next = 0
\* is None
BPlusTreeNode(is_leaf) ==
  [is_leaf |-> is_leaf, keys |-> <<>>, values |-> <<>>, children |-> <<>>, next |-> 0]

\* BPlusTree(order)
BPlusTree(order) == [order |-> order, root |-> 1, nodes |-> <<BPlusTreeNode(TRUE)>>]

\* list.insert(i, x), list.pop(i), list.index(x) and s[i] of Python: i counts
\* from 0, and a negative i from the end
ListInsert(s, i, x) == SubSeq(s, 1, i) \o <<x>> \o SubSeq(s, i + 1, Len(s))

ListPop(s, i) ==
  LET j == IF i < 0 THEN Len(s) + i ELSE i
  IN SubSeq(s, 1, j) \o SubSeq(s, j + 2, Len(s))

ListIndex(s, x) == Min({i \in 1..Len(s) : s[i] = x}) - 1

ListAt(s, i) == IF i < 0 THEN s[Len(s) + i + 1] ELSE s[i + 1]

\* mutant: a key equal to a separator is looked for in the left subtree
ChildIndex_Strict(keys, k) ==
  LET S == {i \in 1..Len(keys) : ~(k > keys[i])}
  IN IF S = {} THEN Len(keys) ELSE Min(S) - 1

\* the inner loop of _find_leaf: while i < len(keys) and key >= keys[i]
ChildIndex(keys, k) ==
  LET S == {i \in 1..Len(keys) : ~(k >= keys[i])}
  IN IF S = {} THEN Len(keys) ELSE Min(S) - 1

RECURSIVE FindLeafFrom(_, _, _)
FindLeafFrom(t, curr, k) ==
  IF t.nodes[curr].is_leaf THEN curr
  ELSE FindLeafFrom(t, ListAt(t.nodes[curr].children,
                              ChildIndex(t.nodes[curr].keys, k)), k)

_find_leaf(t, k) == FindLeafFrom(t, t.root, k)

\* the second loop of _find_parent: the first child under which child is found
RECURSIVE _find_parent(_, _, _), FindParentBelow(_, _, _, _)
FindParentBelow(t, children, i, child) ==
  IF i > Len(children) THEN 0
  ELSE LET parent == IF t.nodes[children[i]].is_leaf THEN 0
                     ELSE _find_parent(t, children[i], child)
       IN IF parent # 0 THEN parent ELSE FindParentBelow(t, children, i + 1, child)

_find_parent(t, curr, child) ==
  IF curr = 0 \/ t.nodes[curr].is_leaf THEN 0
  ELSE IF child \in Range(t.nodes[curr].children) THEN curr
  ELSE FindParentBelow(t, t.nodes[curr].children, 1, child)

\* while insert_index < len(keys) and keys[insert_index] < key
InsertIndex(keys, k) ==
  LET S == {i \in 1..Len(keys) : ~(keys[i] < k)}
  IN IF S = {} THEN Len(keys) ELSE Min(S) - 1

RECURSIVE _split_internal(_, _)
_split_internal(t, node) ==
  LET n == t.nodes[node]
      mid_index == Len(n.keys) \div 2
      promoted_key == n.keys[mid_index + 1]
      new_node == Len(t.nodes) + 1
      right == [BPlusTreeNode(FALSE) EXCEPT
                  !.keys = SubSeq(n.keys, mid_index + 2, Len(n.keys)),
                  !.children = SubSeq(n.children, mid_index + 2, Len(n.children))]
      left == [n EXCEPT !.keys = SubSeq(n.keys, 1, mid_index),
                        !.children = SubSeq(n.children, 1, mid_index + 1)]
      t1 == [t EXCEPT !.nodes = Append([@ EXCEPT ![node] = left], right)]
  IN IF node = t.root
     THEN [t1 EXCEPT !.nodes = Append(@, [BPlusTreeNode(FALSE) EXCEPT
                                            !.keys = <<promoted_key>>,
                                            !.children = <<node, new_node>>]),
                     !.root = new_node + 1]
     ELSE LET parent == _find_parent(t1, t1.root, node)
              insert_index == InsertIndex(t1.nodes[parent].keys, promoted_key)
              t2 == [t1 EXCEPT
                       !.nodes[parent].keys = ListInsert(@, insert_index, promoted_key),
                       !.nodes[parent].children = ListInsert(@, insert_index + 1, new_node)]
          IN IF Len(t2.nodes[parent].keys) > t.order - 1
             THEN _split_internal(t2, parent) ELSE t2

\* mutant: the left half takes the larger part of an odd number of keys
leaf_mid_index_Ceil(keys) == (Len(keys) + 1) \div 2

\* mid_index = len(node.keys) // 2 of _split_leaf
leaf_mid_index(keys) == Len(keys) \div 2

_split_leaf(t, node) ==
  LET n == t.nodes[node]
      mid_index == leaf_mid_index(n.keys)
      new_leaf == Len(t.nodes) + 1
      right == [BPlusTreeNode(TRUE) EXCEPT
                  !.keys = SubSeq(n.keys, mid_index + 1, Len(n.keys)),
                  !.values = SubSeq(n.values, mid_index + 1, Len(n.values)),
                  !.next = n.next]
      left == [n EXCEPT !.keys = SubSeq(n.keys, 1, mid_index),
                        !.values = SubSeq(n.values, 1, mid_index),
                        !.next = new_leaf]
      t1 == [t EXCEPT !.nodes = Append([@ EXCEPT ![node] = left], right)]
  IN IF node = t.root
     THEN [t1 EXCEPT !.nodes = Append(@, [BPlusTreeNode(FALSE) EXCEPT
                                            !.keys = <<right.keys[1]>>,
                                            !.children = <<node, new_leaf>>]),
                     !.root = new_leaf + 1]
     ELSE LET parent == _find_parent(t1, t1.root, node)
              insert_index == InsertIndex(t1.nodes[parent].keys, right.keys[1])
              t2 == [t1 EXCEPT
                       !.nodes[parent].keys = ListInsert(@, insert_index, right.keys[1]),
                       !.nodes[parent].children = ListInsert(@, insert_index + 1, new_leaf)]
          IN IF Len(t2.nodes[parent].keys) > t.order - 1
             THEN _split_internal(t2, parent) ELSE t2

\* BPlusTree.insert
BPlusTree_insert(t, k, value) ==
  LET leaf == _find_leaf(t, k)
      n == t.nodes[leaf]
      insert_index == InsertIndex(n.keys, k)
      t1 == [t EXCEPT !.nodes[leaf].keys = ListInsert(@, insert_index, k),
                      !.nodes[leaf].values = ListInsert(@, insert_index, value)]
  IN IF k \in Range(n.keys) THEN [t |-> t, ret |-> FALSE]
     ELSE [t |-> IF Len(t1.nodes[leaf].keys) > t.order - 1
                 THEN _split_leaf(t1, leaf) ELSE t1,
           ret |-> TRUE]

\* _merge_nodes(left, right, parent, parent_index)
RECURSIVE MergePair(_, _, _, _, _)
MergePair(t, left, right, parent, parent_index) ==
  LET L == t.nodes[left]
      R == t.nodes[right]
      P == t.nodes[parent]
      t1 == IF L.is_leaf
            THEN [t EXCEPT
                    !.nodes[left] = [L EXCEPT !.keys = @ \o R.keys,
                                              !.values = @ \o R.values,
                                              !.next = R.next],
                    !.nodes[parent] =
                       [P EXCEPT !.keys = IF parent_index < Len(P.keys)
                                          THEN ListPop(@, parent_index)
                                          ELSE IF parent_index = Len(P.keys)
                                          THEN ListPop(@, -1) ELSE @,
                                 !.children = ListPop(@, parent_index + 1)]]
            ELSE [t EXCEPT
                    !.nodes[left] = [L EXCEPT
                                       !.keys = Append(@, ListAt(P.keys, parent_index)) \o R.keys,
                                       !.children = @ \o R.children],
                    !.nodes[parent] = [P EXCEPT !.keys = ListPop(@, parent_index),
                                                !.children = ListPop(@, parent_index + 1)]]
      P1 == t1.nodes[parent]
  IN IF parent = t.root /\ Len(P1.keys) = 0 THEN [t1 EXCEPT !.root = left]
     ELSE IF Len(P1.keys) < (t.order - 1) \div 2
     THEN LET parent_parent == _find_parent(t1, t1.root, parent)
          IN IF parent_parent = 0
             THEN (IF Len(P1.keys) = 0 THEN [t1 EXCEPT !.root = P1.children[1]] ELSE t1)
             ELSE LET PP == t1.nodes[parent_parent]
                      p_idx == ListIndex(PP.children, parent)
                  IN IF p_idx + 1 < Len(PP.children)
                     THEN MergePair(t1, parent, ListAt(PP.children, p_idx + 1),
                                    parent_parent, p_idx)
                     ELSE MergePair(t1, ListAt(PP.children, p_idx - 1), parent,
                                    parent_parent, p_idx - 1)
     ELSE t1

\* _merge_nodes(node): the parent and a sibling are looked up first
_merge_nodes(t, node) ==
  LET parent == _find_parent(t, t.root, node)
  IN IF parent = 0 THEN t
     ELSE LET children == t.nodes[parent].children
              idx == ListIndex(children, node)
          IN IF idx + 1 < Len(children)
             THEN MergePair(t, node, ListAt(children, idx + 1), parent, idx)
             ELSE IF idx - 1 >= 0
             THEN MergePair(t, ListAt(children, idx - 1), node, parent, idx - 1)
             ELSE t

\* BPlusTree.delete
BPlusTree_delete(t, k) ==
  LET leaf == _find_leaf(t, k)
      n == t.nodes[leaf]
      index == ListIndex(n.keys, k)
      t1 == [t EXCEPT !.nodes[leaf].keys = ListPop(@, index),
                      !.nodes[leaf].values = ListPop(@, index)]
  IN IF k \notin Range(n.keys) THEN [t |-> t, ret |-> FALSE]
     ELSE [t |-> IF Len(t1.nodes[leaf].keys) < (t.order - 1) \div 2
                 THEN _merge_nodes(t1, leaf) ELSE t1,
           ret |-> TRUE]

\* BPlusTree.search
BPlusTree_search(t, k) ==
  LET n == t.nodes[_find_leaf(t, k)]
      hits == {i \in 1..Len(n.keys) : n.keys[i] = k}
  IN IF hits = {} THEN None ELSE n.values[Min(hits)]

\* zip(node.keys, node.values)
Pairs(n) ==
  [i \in 1..(IF Len(n.keys) <= Len(n.values) THEN Len(n.keys) ELSE Len(n.values)) |->
     <<n.keys[i], n.values[i]>>]

RECURSIVE Leftmost(_, _)
Leftmost(t, current) ==
  IF t.nodes[current].is_leaf THEN current
  ELSE Leftmost(t, t.nodes[current].children[1])

\* the second loop of traverse, along the next links
RECURSIVE WalkLeaves(_, _, _)
WalkLeaves(t, current, fuel) ==
  IF current = 0 \/ fuel = 0 THEN <<>>
  ELSE Pairs(t.nodes[current]) \o WalkLeaves(t, t.nodes[current].next, fuel - 1)

\* list(BPlusTree.traverse())
traverse(t) == WalkLeaves(t, Leftmost(t, t.root), Len(t.nodes))

\* the for loop of range_search over one leaf; done when a key exceeds end_key
RECURSIVE ScanLeaf(_, _, _, _, _)
ScanLeaf(pairs, i, start_key, end_key, results) ==
  IF i > Len(pairs) THEN [results |-> results, done |-> FALSE]
  ELSE IF pairs[i][1] < start_key THEN ScanLeaf(pairs, i + 1, start_key, end_key, results)
  ELSE IF pairs[i][1] > end_key THEN [results |-> results, done |-> TRUE]
  ELSE ScanLeaf(pairs, i + 1, start_key, end_key, Append(results, pairs[i]))

RECURSIVE RangeFrom(_, _, _, _, _, _)
RangeFrom(t, leaf, start_key, end_key, results, fuel) ==
  IF leaf = 0 \/ fuel = 0 THEN results
  ELSE LET r == ScanLeaf(Pairs(t.nodes[leaf]), 1, start_key, end_key, results)
       IN IF r.done THEN r.results
          ELSE RangeFrom(t, t.nodes[leaf].next, start_key, end_key, r.results, fuel - 1)

\* BPlusTree.range_search
range_search(t, start_key, end_key) ==
  RangeFrom(t, _find_leaf(t, start_key), start_key, end_key, <<>>, Len(t.nodes))

\* The node objects that the tree still refers to, root first.  Which object
\* a node is has no meaning beyond the references to it, so the nodes are
\* numbered in preorder after every call and the others are dropped.
RECURSIVE PreOrder(_, _), PreOrderAll(_, _, _)
PreOrderAll(t, children, i) ==
  IF i > Len(children) THEN <<>>
  ELSE PreOrder(t, children[i]) \o PreOrderAll(t, children, i + 1)

PreOrder(t, node) ==
  <<node>> \o (IF t.nodes[node].is_leaf THEN <<>>
               ELSE PreOrderAll(t, t.nodes[node].children, 1))

RECURSIVE NextClosure(_, _)
NextClosure(t, S) ==
  LET S1 == S \cup ({t.nodes[n].next : n \in S} \ {0})
  IN IF S1 = S THEN S ELSE NextClosure(t, S1)

Referenced(t) ==
  LET ord == PreOrder(t, t.root)
      keep == ord \o SortedSeq(NextClosure(t, Range(ord)) \ Range(ord))
      pos(id) == IF id = 0 THEN 0 ELSE CHOOSE i \in 1..Len(keep) : keep[i] = id
  IN [order |-> t.order, root |-> 1,
      nodes |-> [i \in 1..Len(keep) |->
                   LET n == t.nodes[keep[i]]
                   IN [n EXCEPT !.children = [j \in 1..Len(n.children) |-> pos(n.children[j])],
                                !.next = pos(n.next)]]]

(***************************************************************************)
(* SpecTree: calls of the B+ tree                                          *)
(***************************************************************************)
TreeInit ==
  /\ bptree = BPlusTree(DefaultOrder)
  /\ treecall = [op |-> "none", key |-> None, hi |-> None, value |-> None,
                 result |-> None, present |-> <<>>]

\* t = BPlusTree(order)
New(order) ==
  /\ bptree' = BPlusTree(order)
  /\ treecall' = [op |-> "new", key |-> None, hi |-> None, value |-> None,
                  result |-> None, present |-> <<>>]

TreeInsert(k, value) ==
  LET r == BPlusTree_insert(bptree, k, value)
  IN /\ bptree' = Referenced(r.t)
     /\ treecall' = [op |-> "insert", key |-> k, hi |-> None, value |-> value,
                     result |-> r.ret,
                     present |-> IF k \in DOMAIN treecall.present THEN treecall.present
                                 ELSE (k :> value) @@ treecall.present]

TreeDelete(k) ==
  LET r == BPlusTree_delete(bptree, k)
  IN /\ bptree' = Referenced(r.t)
     /\ treecall' = [op |-> "delete", key |-> k, hi |-> None, value |-> None,
                     result |-> r.ret,
                     present |-> [x \in DOMAIN treecall.present \ {k} |->
                                    treecall.present[x]]]

TreeSearch(k) ==
  /\ treecall' = [treecall EXCEPT !.op = "search", !.key = k, !.hi = None,
                                  !.value = None,
                                  !.result = BPlusTree_search(bptree, k)]
  /\ UNCHANGED bptree

TreeTraverse ==
  /\ treecall' = [treecall EXCEPT !.op = "traverse", !.key = None, !.hi = None,
                                  !.value = None, !.result = traverse(bptree)]
  /\ UNCHANGED bptree

TreeRangeSearch(start_key, end_key) ==
  /\ treecall' = [treecall EXCEPT !.op = "range_search", !.key = start_key,
                                  !.hi = end_key, !.value = None,
                                  !.result = range_search(bptree, start_key, end_key)]
  /\ UNCHANGED bptree

TreeNext ==
  \/ \E order \in TreeOrders : New(order)
  \/ \E k \in TreeKeys : \E v \in TreeValues : TreeInsert(k, v)
  \/ \E k \in TreeKeys : TreeDelete(k)
  \/ \E k \in TreeKeys : TreeSearch(k)
  \/ TreeTraverse
  \/ \E a \in TreeKeys : \E b \in TreeKeys : TreeRangeSearch(a, b)

(***************************************************************************)
(* SpecMerge: inserts and deletes on a tree of order 3 with six keys, the  *)
(* fewest with which a merge meets a full sibling                          *)
(***************************************************************************)
MergeOrders == {3}

MergeKeys == {10, 20, 30, 40, 50, 60}

MergeNext ==
  \/ \E order \in MergeOrders : New(order)
  \/ \E k \in MergeKeys : TreeInsert(k, 7)
  \/ \E k \in MergeKeys : TreeDelete(k)

(***************************************************************************)
(* SpecInsert: inserts only, into more rows than one base page holds       *)
(***************************************************************************)
InsertKeys == 1..MaxInserts

InsertManyArgs == {cols \in [1..num_columns -> InsertKeys \cup Values] :
                     \A i \in 1..num_columns :
                        IF i = key + 1 THEN cols[i] \in InsertKeys ELSE cols[i] \in Values}

\* hist[r] is the r-th row whose insert returned True (r counted from 0)
InsertMany(cols) ==
  /\ table.base_record_count < MaxInserts
  /\ LET r == insert(table, cols, _ts_millis)
     IN /\ table' = r.t
        /\ ret' = [op |-> "insert", ok |-> r.ret]
        /\ hist' = IF r.ret
                   THEN (Cardinality(DOMAIN hist) :>
                           [pk |-> cols[key + 1], live |-> TRUE, rows |-> <<cols>>]) @@ hist
                   ELSE hist
  /\ UNCHANGED qcache

InsertNext == \E cols \in InsertManyArgs : InsertMany(cols)

(***************************************************************************)
(* SpecInserters: threads that call Query.insert and Query.update on one   *)
(* table.  Table has no latch and the Query facade takes no lock; a thread *)
(* can be switched between any two statements.  The steps below are: the   *)
(* checks up to _generate_rid, the write of all columns, the load and the  *)
(* store of `count += 1`, and the rest of the call.                        *)
(***************************************************************************)
\* thread w inserts the row with primary key w
InserterArgs(w) == {cols \in InsertManyArgs : cols[key + 1] = w}

\* its updates leave the primary key alone
InserterUpdateArgs == {cols \in UpdateArgs : cols[key + 1] = None}

\* insert_row up to rid = self._generate_rid("base")
InsertBegin(w, cols) ==
  /\ inserters[w].pc = "idle"
  /\ inserters[w].calls = 0
  /\ LET pk_idx == table.index[key + 1]
         refused == IF pk_idx.present THEN cols[key + 1] \in DOMAIN pk_idx.map
                    ELSE ScanHasKey(table, cols[key + 1])
         rid == _generate_rid(table, "base")
     IN inserters' = [inserters EXCEPT
          ![w] = IF refused THEN [@ EXCEPT !.calls = 1]
                 ELSE [@ EXCEPT !.pc = "ins_rid", !.cols = cols, !.rid = rid,
                                !.record = <<0, rid, _ts_millis, 0>> \o cols,
                                !.calls = 1]]
  /\ UNCHANGED table

\* _write_to_base_pages up to the last column; OverflowError ends the call
InsertWrite(w) ==
  /\ inserters[w].pc = "ins_rid"
  /\ LET page_number == table.base_record_count \div MAX_RECORDS_PER_PAGE
         r == WriteCols(_ensure_dir_entry(table, inserters[w].rid), inserters[w].rid,
                        inserters[w].record, 0, page_number, TRUE)
     IN /\ table' = r.t
        /\ inserters' = [inserters EXCEPT
                           ![w].pc = IF r.exc THEN "idle" ELSE "ins_written"]

\* self.base_record_count += 1 : the load
InsertLoadCount(w) ==
  /\ inserters[w].pc = "ins_written"
  /\ inserters' = [inserters EXCEPT ![w].pc = "ins_loaded",
                                     ![w].count = table.base_record_count]
  /\ UNCHANGED table

\* self.base_record_count += 1 : the store
InsertStoreCount(w) ==
  /\ inserters[w].pc = "ins_loaded"
  /\ table' = [table EXCEPT !.base_record_count = inserters[w].count + 1]
  /\ inserters' = [inserters EXCEPT ![w].pc = "ins_counted"]

\* the index entries, return True
InsertEnd(w) ==
  /\ inserters[w].pc = "ins_counted"
  /\ table' = [table EXCEPT
                 !.index = InsertEntries(@, inserters[w].rid, inserters[w].cols, 0)]
  /\ inserters' = [inserters EXCEPT ![w].pc = "idle",
                                     ![w].inserted = inserters[w].rid,
                                     ![w].row = inserters[w].cols]

\* Query.update(w, *cols) and update_row up to
\* new_tail_rid = self._generate_rid("tail"); False or the no-op end the call
UpdateBegin(w, cols) ==
  /\ inserters[w].pc = "idle"
  /\ inserters[w].inserted # None
  /\ inserters[w].calls = 1
  /\ LET base_rid == _pk_to_rid(table, w)
         ok == /\ base_rid # None
               /\ base_rid \notin table.deleted
               /\ CanReadLatest(table, base_rid)
         latest_rid == _latest_rid_for_base(table, base_rid)
         current == _read_user_values_from_rid(table, latest_rid)
         filled == [i \in 1..num_columns |->
                      IF cols[i] = None THEN current[i] ELSE cols[i]]
         bitmask == BuildMask(filled, current, 0)
         new_tail_rid == _generate_rid(table, "tail")
         prev_ptr == IF latest_rid # base_rid THEN latest_rid ELSE 0
     IN inserters' = [inserters EXCEPT
          ![w] = IF ~ok THEN [@ EXCEPT !.calls = 2]
                 ELSE IF bitmask = 0 THEN [@ EXCEPT !.calls = 2]
                 ELSE [@ EXCEPT !.pc = "upd_rid", !.rid = new_tail_rid,
                                !.base_rid = base_rid,
                                !.record = <<prev_ptr, new_tail_rid, _ts_millis, bitmask>>
                                             \o filled,
                                !.calls = 2]]
  /\ UNCHANGED table

\* _write_to_tail_pages up to the last column
UpdateWrite(w) ==
  /\ inserters[w].pc = "upd_rid"
  /\ LET page_number == table.tail_record_count \div MAX_RECORDS_PER_PAGE
         r == WriteCols(_ensure_dir_entry(table, inserters[w].rid), inserters[w].rid,
                        inserters[w].record, 0, page_number, FALSE)
     IN /\ table' = r.t
        /\ inserters' = [inserters EXCEPT
                           ![w].pc = IF r.exc THEN "idle" ELSE "upd_written"]

\* self.tail_record_count += 1 : the load
UpdateLoadCount(w) ==
  /\ inserters[w].pc = "upd_written"
  /\ inserters' = [inserters EXCEPT ![w].pc = "upd_loaded",
                                     ![w].count = table.tail_record_count]
  /\ UNCHANGED table

\* self.tail_record_count += 1 : the store
UpdateStoreCount(w) ==
  /\ inserters[w].pc = "upd_loaded"
  /\ table' = [table EXCEPT !.tail_record_count = inserters[w].count + 1]
  /\ inserters' = [inserters EXCEPT ![w].pc = "upd_counted"]

\* the base row's INDIRECTION is set to the new tail, return True
UpdateEnd(w) ==
  /\ inserters[w].pc = "upd_counted"
  /\ table' = write_at(table, inserters[w].base_rid, INDIRECTION_COLUMN, inserters[w].rid)
  /\ inserters' = [inserters EXCEPT ![w].pc = "idle",
                                     ![w].updated = inserters[w].rid]

InsertersNext ==
  \/ \E w \in Inserters : \E cols \in InserterArgs(w) : InsertBegin(w, cols)
  \/ \E w \in Inserters : InsertWrite(w)
  \/ \E w \in Inserters : InsertLoadCount(w)
  \/ \E w \in Inserters : InsertStoreCount(w)
  \/ \E w \in Inserters : InsertEnd(w)
  \/ \E w \in Inserters : \E cols \in InserterUpdateArgs : UpdateBegin(w, cols)
  \/ \E w \in Inserters : UpdateWrite(w)
  \/ \E w \in Inserters : UpdateLoadCount(w)
  \/ \E w \in Inserters : UpdateStoreCount(w)
  \/ \E w \in Inserters : UpdateEnd(w)

(***************************************************************************)
(* The specifications                                                      *)
(***************************************************************************)
vars == <<table, qcache, ret, hist, locks, lockcall, txns, wk, seen, bufferpool, disk,
          poolcall, bptree, treecall, pins, written, pending,
          writers, inserters>>

Init == TableInit /\ LockInit /\ TxnInit /\ PoolInit /\ TreeInit /\ ClientInit

Next == TableNext /\ UNCHANGED <<lockVars, txnVars, poolVars, treeVars, clientVars>>

Spec == Init /\ [][Next]_vars

SpecLock == Init /\ [][LockNext /\ UNCHANGED <<tableVars, txnVars, poolVars, treeVars, clientVars>>]_vars

SpecTxn == Init /\ [][TxnNext /\ UNCHANGED <<poolVars, treeVars, clientVars>>]_vars

SpecStore == Init /\ [][StoreNext /\ UNCHANGED <<lockVars, txnVars, poolVars, treeVars, clientVars>>]_vars

SpecPool == Init /\ [][PoolNext /\ UNCHANGED <<tableVars, lockVars, txnVars, treeVars, clientVars>>]_vars

SpecTree == Init /\ [][TreeNext /\ UNCHANGED <<tableVars, lockVars, txnVars, poolVars, clientVars>>]_vars

SpecPins == Init /\ [][PinsNext /\ UNCHANGED <<tableVars, lockVars, txnVars, treeVars, written, pending, writers, inserters>>]_vars

SpecClient == Init /\ [][ClientNext /\ UNCHANGED <<tableVars, lockVars, txnVars, treeVars, pins, writers, inserters>>]_vars

SpecWriters == Init /\ [][WritersNext /\ UNCHANGED <<tableVars, lockVars, txnVars, treeVars, pins, written, pending, inserters>>]_vars

SpecInserters == Init /\ [][InsertersNext /\ UNCHANGED <<qcache, ret, hist, lockVars, txnVars, poolVars, treeVars, pins, written, pending, writers>>]_vars

SpecMerge == Init /\ [][MergeNext /\ UNCHANGED <<tableVars, lockVars, txnVars, poolVars, clientVars>>]_vars

SpecInsert == Init /\ [][InsertNext /\ UNCHANGED <<lockVars, txnVars, poolVars, treeVars, clientVars>>]_vars

(***************************************************************************)
(* Claims about the single-threaded facade (checked under Spec)            *)
(***************************************************************************)
Last(sq) == sq[Len(sq)]

\* a history without the entries that repeat their predecessor: the row
\* states left by the updates that changed at least one column
RECURSIVE Changed(_)
Changed(rows) ==
  IF Len(rows) <= 1 THEN rows
  ELSE LET front == Changed(SubSeq(rows, 1, Len(rows) - 1))
       IN IF Last(rows) = Last(front) THEN front ELSE Append(front, Last(rows))

\* the entry of a history k steps before its last one, clamped to the first
StepsBack(rows, k) == rows[IF k >= Len(rows) - 1 THEN 1 ELSE Len(rows) - k]

LiveKnown == {r \in DOMAIN hist : hist[r].live}

\* C1 as stated: after one insert and n successful updates on one primary
\* key, select_version(pk, key, all-ones, -k) is the row state right after
\* the (n-k)-th update, the inserted row when k >= n.
C1_AsStated ==
  \A r \in LiveKnown : \A k \in 0..MaxUpdates + 1 :
     select_version(table, qcache, hist[r].pk, key, AllOnes, -k)
       = <<StepsBack(hist[r].rows, k)>>

\* C1 amended: the same, counting only the updates that changed at least one
\* column of the row (an update that changes nothing adds no version).
C1_VersionIsStateAfterChange ==
  \A r \in LiveKnown : \A k \in 0..MaxUpdates + 1 :
     select_version(table, qcache, hist[r].pk, key, AllOnes, -k)
       = <<StepsBack(Changed(hist[r].rows), k)>>

\* a live row changed twice, in different columns, read by select_version
C1_Witness ==
  /\ ret = [op |-> "select_version", ok |-> TRUE]
  /\ qcache.built
  /\ \E r \in LiveKnown :
        /\ Len(Changed(hist[r].rows)) = 3
        /\ _read_cell(table, TAIL_RID_START, SCHEMA_ENCODING_COLUMN)
             # _read_cell(table, TAIL_RID_START + 1, SCHEMA_ENCODING_COLUMN)
        /\ _read_cell(table, r, INDIRECTION_COLUMN) = TAIL_RID_START + 1
        /\ _read_cell(table, TAIL_RID_START + 1, INDIRECTION_COLUMN) = TAIL_RID_START

\* C2: after an insert and any successful updates on a live row, select on
\* its primary key returns exactly one record, holding for every column the
\* value of the latest update that gave one (else the inserted value); it is
\* what one hop along INDIRECTION reads (the base row if 0, else that tail).
C2_SelectReturnsLatest ==
  \A r \in LiveKnown :
     /\ select(table, hist[r].pk, key, AllOnes) = <<Last(hist[r].rows)>>
     /\ LET indir == _read_cell(table, r, INDIRECTION_COLUMN)
        IN Last(hist[r].rows) =
             _read_user_values_from_rid(table, IF indir = 0 THEN r ELSE indir)

\* a live row after two updates of which the later one left a column alone
\* that the earlier one had set
C2_Witness ==
  /\ ret = [op |-> "update", ok |-> TRUE]
  /\ \E r \in LiveKnown :
        /\ Len(hist[r].rows) = 3
        /\ _read_cell(table, r, INDIRECTION_COLUMN) = TAIL_RID_START + 1
        /\ \E i \in 1..num_columns :
              /\ hist[r].rows[2][i] # hist[r].rows[1][i]
              /\ hist[r].rows[3][i] = hist[r].rows[2][i]
              /\ hist[r].rows[3] # hist[r].rows[2]

\* C3: no two live base RIDs have the same primary-key value.
C3_LiveKeysDistinct ==
  \A r1, r2 \in BaseRids(table) \ table.deleted :
     r1 # r2 =>
       _materialize_latest_user_values(table, r1)[key + 1]
         # _materialize_latest_user_values(table, r2)[key + 1]

(***************************************************************************)
(* Claims about the LockManager (checked under SpecLock)                   *)
(***************************************************************************)
\* the transactions other than txn_id that hold a lock on rid
OtherHolders(L, txn_id, rid) ==
  (Entry(L, rid).shared \cup
     (IF Entry(L, rid).exclusive = None THEN {} ELSE {Entry(L, rid).exclusive}))
  \ {txn_id}

Holds(L, txn_id, rid) ==
  txn_id \in Entry(L, rid).shared \/ Entry(L, rid).exclusive = txn_id

\* C9: acquire_exclusive(txn, rid) is granted exactly when no other
\* transaction holds a lock on rid; once granted txn is the exclusive holder
\* and the shared set is empty (upgrade); on conflict it fails at once, also
\* when txn itself holds S next to another holder.
C9_ExclusiveGrantedIffNoOtherHolder ==
  [][lockcall'.op = "acquire_exclusive" =>
       /\ (lockcall'.result = "granted")
            <=> (OtherHolders(locks, lockcall'.txn, lockcall'.rid) = {})
       /\ lockcall'.result \in {"granted", "conflict"}
       /\ lockcall'.result = "granted" =>
            locks'[lockcall'.rid] = [shared |-> {}, exclusive |-> lockcall'.txn]
       /\ (lockcall'.txn \in Entry(locks, lockcall'.rid).shared
            /\ OtherHolders(locks, lockcall'.txn, lockcall'.rid) # {})
            => lockcall'.result = "conflict"]_vars

\* acquire_exclusive was refused to a shared holder that is not the only one,
\* and another RID shows a finished upgrade
C9_Witness ==
  /\ lockcall.op = "acquire_exclusive"
  /\ lockcall.result = "conflict"
  /\ lockcall.txn \in Entry(locks, lockcall.rid).shared
  /\ Cardinality(Entry(locks, lockcall.rid).shared) >= 2
  /\ \E rid \in DOMAIN locks : locks[rid].exclusive # None

\* C10: acquire_shared(txn, rid) is granted iff no other transaction holds
\* the exclusive lock on rid, however many shared holders there are; for a
\* transaction that already holds S or X on rid it succeeds and leaves the
\* lock table unchanged.
C10_SharedGrantedIffNoOtherExclusive ==
  [][lockcall'.op = "acquire_shared" =>
       /\ (lockcall'.result = "granted")
            <=> (Entry(locks, lockcall'.rid).exclusive \in {None, lockcall'.txn})
       /\ lockcall'.result = "granted" => Holds(locks', lockcall'.txn, lockcall'.rid)
       /\ Holds(locks, lockcall'.txn, lockcall'.rid) =>
            (lockcall'.result = "granted" /\ locks' = locks)]_vars

\* acquire_shared was granted next to two other shared holders
C10_Witness ==
  /\ lockcall.op = "acquire_shared"
  /\ lockcall.result = "granted"
  /\ Cardinality(Entry(locks, lockcall.rid).shared) >= 3
  /\ \E rid \in DOMAIN locks : locks[rid].exclusive # None

\* C11: after release_all(txn), txn holds no S or X lock on any RID, the
\* locks of every other transaction are as before, and no entry of the lock
\* table has an empty shared set and no exclusive holder.
C11_ReleaseAllDropsOnlyOwnLocks ==
  [][lockcall'.op = "release_all" =>
       /\ \A rid \in LockRids : ~Holds(locks', lockcall'.txn, rid)
       /\ \A rid \in LockRids :
            OtherHolders(locks', lockcall'.txn, rid) = OtherHolders(locks, lockcall'.txn, rid)
       /\ \A rid \in LockRids : \A u \in LockTxns \ {lockcall'.txn} :
            /\ (u \in Entry(locks', rid).shared) <=> (u \in Entry(locks, rid).shared)
            /\ (Entry(locks', rid).exclusive = u) <=> (Entry(locks, rid).exclusive = u)
       /\ \A rid \in DOMAIN locks' :
            locks'[rid].shared # {} \/ locks'[rid].exclusive # None]_vars

\* release_all by a transaction that held X on one RID and shared S on the
\* other with a transaction that still holds it
C11_Witness ==
  /\ lockcall.op = "release_all"
  /\ \E rid \in DOMAIN lockcall.before : lockcall.before[rid].exclusive = lockcall.txn
  /\ \E rid \in DOMAIN lockcall.before :
       /\ lockcall.txn \in lockcall.before[rid].shared
       /\ rid \in DOMAIN locks
       /\ locks[rid].shared # {}
  /\ Cardinality(DOMAIN locks) < Cardinality(DOMAIN lockcall.before)

\* C12: a lock request that fails with LockException returns at once and
\* leaves the lock table, entry by entry, as it was before the call.
C12_ConflictLeavesLockTable ==
  [][(lockcall'.op \in {"acquire_shared", "acquire_exclusive"}
        /\ lockcall'.result = "conflict")
       => /\ locks' = locks
          /\ \A rid \in LockRids : Entry(locks', rid) = Entry(locks, rid)]_vars

\* acquire_shared was refused because another transaction holds X
C12_Witness ==
  /\ lockcall.op = "acquire_shared"
  /\ lockcall.result = "conflict"
  /\ Entry(locks, lockcall.rid).exclusive \notin {None, lockcall.txn}
  /\ locks = lockcall.before

(***************************************************************************)
(* Claims about transactions (checked under SpecTxn)                       *)
(***************************************************************************)
AllDone == \A w \in Workers : wk[w].pc = "done"

\* the step of worker w in which run() returns self.abort()
AbortStep(w) == wk[w].pc = "abort" /\ wk'[w] # wk[w]

\* what the queries of the aborting run did, by kind
DidOf(w, kind) == {seen[w].did[i] : i \in {j \in 1..Len(seen[w].did) : seen[w].did[j].kind = kind}}

\* the X lock on rid is held by a transaction other than txn_id that is
\* still inside run()
HeldByOtherActive(txn_id, rid) ==
  /\ Entry(locks, rid).exclusive \notin {None, txn_id}
  /\ \E v \in Workers : wk[v].txn_id = Entry(locks, rid).exclusive /\ wk[v].pc \in {"run", "incr"}

\* C4: if every transaction is one increment of column 1 of the row with
\* key 1 and all of them committed, the column ends at its initial value plus
\* the number of transactions (no lost update).
C4_NoLostUpdate ==
  ( /\ AllDone
    /\ \A x \in Workers : txns[x].queries = <<OpIncrement1>>
    /\ \A w \in Workers : wk[w].stats = <<TRUE>> )
  => select(table, SetupRow[key + 1], key, AllOnes) = << <<SetupRow[1], SetupRow[2] + NumWorkers>> >>

\* C5: while another transaction that has neither committed nor aborted holds
\* the exclusive lock on a RID, an update of that RID issued inside a
\* transaction does not take effect and the transaction goes to abort.
C5_UpdateUnderForeignLockAborts ==
  [][ \A w \in Workers :
        ( /\ wk[w].pc = "run" /\ wk'[w] # wk[w]
          /\ CurOp(w).op = "update"
          /\ _pk_to_rid(table, CurOp(w).a) # None
          /\ HeldByOtherActive(wk[w].txn_id, _pk_to_rid(table, CurOp(w).a)) )
        => (table' = table /\ wk'[w].pc = "abort") ]_vars

\* C6: after the abort of a transaction that deleted the row with key p, the
\* RID is out of the deleted set, select(p) returns the row as it was when the
\* transaction started, and the PK index holds the posting an insert stores.
C6_AbortRestoresDeletedRow ==
  [][ \A w \in Workers : AbortStep(w) =>
        \A e \in DidOf(w, "delete") :
          /\ e.rid \notin table'.deleted
          /\ select(table', e.pk, key, AllOnes) = select(seen[w].snap, e.pk, key, AllOnes)
          /\ e.pk \in DOMAIN table'.index[key + 1].map
          /\ table'.index[key + 1].map[e.pk] = Posting(<<e.rid>>) ]_vars

\* C7: after the abort of a transaction that updated a row, the base row's
\* INDIRECTION, select and select_version at every rv are what they were when
\* the transaction started.
C7_AbortUndoesUpdate ==
  [][ \A w \in Workers : AbortStep(w) =>
        \A e \in DidOf(w, "update") :
          /\ _read_cell(table', e.rid, INDIRECTION_COLUMN)
               = _read_cell(seen[w].snap, e.rid, INDIRECTION_COLUMN)
          /\ select(table', e.pk, key, AllOnes) = select(seen[w].snap, e.pk, key, AllOnes)
          /\ \A k \in 0..MaxUpdates :
               select_version(table', NoCache, e.pk, key, AllOnes, 0 - k)
                 = select_version(seen[w].snap, NoCache, e.pk, key, AllOnes, 0 - k) ]_vars

\* C8: after the abort of a transaction that inserted a row with key p, the
\* inserted RID is in the deleted set, p is out of the PK index, select(p)
\* returns [] and an insert with key p succeeds.
C8_AbortUndoesInsert ==
  [][ \A w \in Workers : AbortStep(w) =>
        \A e \in DidOf(w, "insert") :
          /\ e.rid \in table'.deleted
          /\ e.pk \notin DOMAIN table'.index[key + 1].map
          /\ select(table', e.pk, key, AllOnes) = <<>>
          /\ insert(table', e.row, _ts_millis).ret ]_vars

\* False itself, not a value that merely equals it
ExplicitFalse(result) == result.type = "bool" /\ result.val = 0

\* C18: run() invokes the queries in the order they were added; it is on its
\* way to abort only after a query that returned explicit False or raised
\* LockException, and to commit only after all queries ran and none did; a
\* result such as a sum of 0 or an empty select list does not abort.
C18_AbortOnlyOnFalseOrConflict ==
  \A w \in Workers :
    LET calls == seen[w].calls
    IN /\ \A i \in 1..Len(calls) : calls[i].qi = i
       /\ wk[w].pc = "abort" =>
            /\ calls # <<>>
            /\ ExplicitFalse(Last(calls).result) \/ Last(calls).result = Raised
       /\ wk[w].pc = "commit" =>
            /\ Len(calls) = Len(txns[CurTxn(w)].queries)
            /\ \A i \in 1..Len(calls) :
                 ~ExplicitFalse(calls[i].result) /\ calls[i].result # Raised

\* the worker thread has ended: its loop is over or an exception left it
Terminated(w) == wk[w].pc \in {"done", "dead"}

\* C19: once an exception other than LockException has left run(), the
\* transaction holds no lock and what its queries did is undone.
C19_OtherExceptionAborts ==
  \A w \in Workers :
    wk[w].pc = "dead" =>
      /\ \A rid \in LockRids : ~Holds(locks, Batch(w)[wk[w].ti], rid)
      /\ \A i \in 1..Len(seen[w].did) :
           seen[w].did[i].kind = "update" =>
             select(table, seen[w].did[i].pk, key, AllOnes)
               = select(seen[w].snap, seen[w].did[i].pk, key, AllOnes)

\* C20: when the worker thread has terminated, stats holds one boolean per
\* transaction of the batch and result is the number of true entries.
C20_StatsPerTransaction ==
  \A w \in Workers :
    Terminated(w) =>
      /\ Len(wk[w].stats) = Len(Batch(w))
      /\ wk[w].result = Cardinality({i \in 1..Len(wk[w].stats) : wk[w].stats[i]})

(***************************************************************************)
(* Claims about the buffer pool (checked under SpecPool)                   *)
(***************************************************************************)
Resident == DOMAIN bufferpool.pages

\* the frames the last call removed
Removed == DOMAIN poolcall.before \ Resident

\* the last call was a get_page of a non-resident page on a full pool
MissOnFull ==
  /\ poolcall.op = "get_page"
  /\ poolcall.pid \notin DOMAIN poolcall.before
  /\ Cardinality(DOMAIN poolcall.before) >= BUFFERPOOL_SIZE

Unpinned(frames, dirty) ==
  {pid \in DOMAIN frames : ~frames[pid].is_pinned /\ frames[pid].is_dirty = dirty}

IsOldestOf(frames, pid, cands) ==
  /\ pid \in cands
  /\ \A q \in cands \ {pid} : frames[pid].last_access_time < frames[q].last_access_time

OnDisk(pid, page) == pid \in DOMAIN disk /\ disk[pid] = toJSON(page)

\* C13: the pool never holds more than BUFFERPOOL_SIZE frames, its frames are
\* keyed by page id (one frame per id), and a frame that a call removed was
\* not pinned when the call began.
C13_PoolBoundedPinnedStay ==
  /\ Cardinality(Resident) <= BUFFERPOOL_SIZE
  /\ \A pid \in PoolPids :
       Cardinality({q \in Resident : q = pid}) <= 1
  /\ \A pid \in Removed : ~poolcall.before[pid].is_pinned

\* a miss on a full pool evicted a frame and spared an older, pinned one
C13_Witness ==
  /\ MissOnFull
  /\ Cardinality(Resident) = BUFFERPOOL_SIZE
  /\ \E v \in Removed : \E q \in Resident \ {poolcall.pid} :
       /\ bufferpool.pages[q].is_pinned
       /\ poolcall.before[q].last_access_time < poolcall.before[v].last_access_time

\* C14: a miss on a full pool that succeeds removes exactly one frame: the
\* unpinned clean frame with the smallest last_access_time if there is one,
\* else the unpinned dirty frame with the smallest last_access_time, whose
\* page is then on disk.
C14_VictimIsOldestCleanElseDirty ==
  (MissOnFull /\ ~poolcall.exc) =>
    /\ Cardinality(Removed) = 1
    /\ \A v \in Removed :
         IF Unpinned(poolcall.before, FALSE) # {}
         THEN IsOldestOf(poolcall.before, v, Unpinned(poolcall.before, FALSE))
         ELSE /\ IsOldestOf(poolcall.before, v, Unpinned(poolcall.before, TRUE))
              /\ OnDisk(v, poolcall.before[v].page)
    /\ poolcall.pid \in Resident

\* the victim was clean although an unpinned dirty frame was older
C14_Witness ==
  /\ MissOnFull /\ ~poolcall.exc
  /\ \E v \in Removed : \E q \in Unpinned(poolcall.before, TRUE) :
       /\ ~poolcall.before[v].is_dirty
       /\ poolcall.before[q].last_access_time < poolcall.before[v].last_access_time

\* C15: get_page of a non-resident page on a full pool whose frames are all
\* pinned raises, installs no frame for the page and leaves every frame
\* (page, pin and dirty flag) as it was.
C15_AllPinnedRaisesAndKeepsFrames ==
  /\ (MissOnFull /\ \A q \in DOMAIN poolcall.before : poolcall.before[q].is_pinned)
       => poolcall.exc
  /\ (poolcall.op = "get_page" /\ poolcall.exc)
       => /\ poolcall.pid \notin Resident
          /\ bufferpool.pages = poolcall.before

\* get_page raised on a pool with a dirty frame
C15_Witness ==
  /\ poolcall.op = "get_page" /\ poolcall.exc
  /\ \E q \in Resident : bufferpool.pages[q].is_dirty /\ bufferpool.pages[q].page # <<>>

\* C16: after flush_all no frame is dirty, the file of every frame that was
\* dirty holds its in-memory page, and the resident frames, their pages and
\* their pins are as before.
C16_FlushAllCleansAndWrites ==
  poolcall.op = "flush_all" =>
    /\ \A q \in Resident : ~bufferpool.pages[q].is_dirty
    /\ Resident = DOMAIN poolcall.before
    /\ \A q \in DOMAIN poolcall.before :
         /\ bufferpool.pages[q].is_pinned = poolcall.before[q].is_pinned
         /\ bufferpool.pages[q].page = poolcall.before[q].page
         /\ poolcall.before[q].is_dirty => OnDisk(q, bufferpool.pages[q].page)

\* flush_all on a pool with a dirty written page and a pinned frame
C16_Witness ==
  /\ poolcall.op = "flush_all"
  /\ \E q \in DOMAIN poolcall.before :
       poolcall.before[q].is_dirty /\ poolcall.before[q].page # <<>>
  /\ \E q \in Resident : bufferpool.pages[q].is_pinned

\* C17: after evict_all, from any pool state, no frame is resident and the
\* page of every frame that was dirty is on disk.
C17_EvictAllEmptiesPool ==
  poolcall.op = "evict_all" =>
    /\ Resident = {}
    /\ \A q \in DOMAIN poolcall.before :
         poolcall.before[q].is_dirty => OnDisk(q, poolcall.before[q].page)

(***************************************************************************)
(* Claims about indexes, aggregates, merge and recovery (SpecStore)        *)
(***************************************************************************)
LiveBase(t) == {r \in BaseRids(t) : r \notin t.deleted}

\* materialize_latest(r)[c]
LatestOn(t, r, c) == _materialize_latest_user_values(t, r)[c + 1]

NonKeyColumns == (0..num_columns - 1) \ {key}

\* C21: for every indexed non-PK column c, every live base RID is in the
\* posting list of its latest value on c, and locate(c, v) returns only base
\* RIDs whose latest value on c is v.
C21_SecondaryIndexFollowsLatest ==
  \A c \in NonKeyColumns :
    table.index[c + 1].present =>
      /\ \A r \in LiveBase(table) :
           r \in Range(locate(table.index, c, LatestOn(table, r, c)))
      /\ \A v \in DOMAIN table.index[c + 1].map :
           \A r \in Range(locate(table.index, c, v)) :
             _is_base_rid(r) /\ LatestOn(table, r, c) = v

\* the map create_index has to build on column c: value -> the live base RIDs
\* whose latest value on c it is
IsIndexOfLive(t, m, c) ==
  /\ DOMAIN m = {LatestOn(t, r, c) : r \in LiveBase(t)}
  /\ \A v \in DOMAIN m :
       /\ Range(m[v].rids) = {r \in LiveBase(t) : LatestOn(t, r, c) = v}
       /\ Len(m[v].rids) = Cardinality(Range(m[v].rids))

\* C28: a create_index call that builds the index of a column maps each value
\* to exactly the live base RIDs whose latest value it is (no deleted RID, no
\* tail RID); a create_index call that fails leaves every index as it was.
C28_CreateIndexCoversLiveRows ==
  [][ret'.op = "create_index" =>
       /\ \A c \in 0..num_columns - 1 :
            (~table.index[c + 1].present /\ table'.index[c + 1].present)
              => IsIndexOfLive(table, table'.index[c + 1].map, c)
       /\ ~ret'.ok => table'.index = table.index]_vars

\* C22: after flush_all, recover() on a new table object rebuilds the same
\* page directory, the same base and tail record counts, and a primary-key
\* index that holds exactly the live base RIDs under their latest key value
C22_RecoverRoundTrip ==
  [][ret'.op = "recover" =>
       /\ table'.page_directory = table.page_directory
       /\ table'.base_record_count = table.base_record_count
       /\ table'.tail_record_count = table.tail_record_count
       /\ table'.index[key + 1].present
       /\ IsIndexOfLive(table, table'.index[key + 1].map, key)]_vars

VersionsAsked == (0 - MaxUpdates - 1)..0

\* C23: merge preserves history: for every key and every relative version,
\* select_version returns after merge the row it returned before
C23_MergePreservesHistory ==
  [][ret'.op = "merge" =>
       \A pk \in Keys : \A rv \in VersionsAsked :
         select_version(table', NoCache, pk, key, AllOnes, rv)
           = select_version(table, NoCache, pk, key, AllOnes, rv)]_vars

\* the live rows whose latest primary-key value is pk
LiveWithKey(t, pk) == {r \in LiveBase(t) : LatestOn(t, r, key) = pk}

\* a step of Query.delete(pk)
DeleteStep(pk) ==
  /\ ret'.op = "delete"
  /\ table' = delete(table, pk).t
  /\ ret'.ok = delete(table, pk).ret

KeyRanges == {<<lo, hi>> \in Keys \X Keys : lo <= hi}

\* C24: delete(pk) of a live row returns True, adds the row's base RID to
\* the deleted set and removes pk from the PK index; select(pk) is then
\* empty and a sum over a range around pk no longer counts the row; pages,
\* page directory and record counts stay.  delete(pk) of a missing or
\* deleted key returns False and changes nothing
C24_DeleteIsLogical ==
  [][\A pk \in Keys :
       DeleteStep(pk) =>
         IF LiveWithKey(table, pk) # {}
         THEN /\ ret'.ok
              /\ \E r \in LiveWithKey(table, pk) :
                   /\ table'.deleted = table.deleted \cup {r}
                   /\ \A rg \in KeyRanges : \A c \in 0..num_columns - 1 :
                        (rg[1] <= pk /\ pk <= rg[2]) =>
                          sum(table', rg[1], rg[2], c)
                            = sum(table, rg[1], rg[2], c) - LatestOn(table, r, c)
              /\ pk \notin DOMAIN table'.index[key + 1].map
              /\ select(table', pk, key, AllOnes) = <<>>
              /\ table'.pages = table.pages
              /\ table'.page_directory = table.page_directory
              /\ table'.base_record_count = table.base_record_count
              /\ table'.tail_record_count = table.tail_record_count
         ELSE ~ret'.ok /\ table' = table]_vars

RECURSIVE SumSet(_, _)
SumSet(f, S) ==
  IF S = {} THEN 0
  ELSE LET x == CHOOSE y \in S : TRUE IN f[x] + SumSet(f, S \ {x})

\* the live rows whose latest primary key lies in [lo, hi]
LiveInRange(t, lo, hi) ==
  {r \in LiveBase(t) : lo <= LatestOn(t, r, key) /\ LatestOn(t, r, key) <= hi}

\* the row that select_version returns for the key of row r
VersionOf(t, r, rv) == select_version(t, NoCache, LatestOn(t, r, key), key, AllOnes, rv)

\* C25: sum(lo, hi, col) is the sum of the latest value on col over the live
\* rows whose primary key lies in [lo, hi]; sum_version(lo, hi, col, rv) is
\* the sum over the same rows of column col of the row select_version
\* returns for rv; so sum_version(lo, hi, col, 0) = sum(lo, hi, col)
C25_SumOverLiveRowsInRange ==
  [][ret'.op \in {"sum", "sum_version"} =>
       \A lo \in Keys : \A hi \in Keys : \A c \in 0..num_columns - 1 :
         LET rows == LiveInRange(table, lo, hi)
         IN /\ sum(table, lo, hi, c)
                 = SumSet([r \in rows |-> LatestOn(table, r, c)], rows)
            /\ \A rv \in VersionsAsked :
                 LET sv == sum_version(table, NoCache, lo, hi, c, rv)
                 IN /\ ~sv.exc
                    /\ \A r \in rows : VersionOf(table, r, rv) # <<>>
                    /\ sv.total = SumSet([r \in rows |-> VersionOf(table, r, rv)[1][c + 1]], rows)
            /\ sum_version(table, NoCache, lo, hi, c, 0).total = sum(table, lo, hi, c)]_vars

\* a step of Query.insert(*cols)
InsertStep(cols) ==
  /\ ret'.op = "insert"
  /\ table' = insert(table, cols, _ts_millis).t
  /\ ret'.ok = insert(table, cols, _ts_millis).ret

\* C26: an insert with a wrong number of arguments, or with the primary key
\* of a live row, returns False and leaves base_record_count, the page
\* directory, the pages and the indexes unchanged
C26_RejectedInsertChangesNothing ==
  [][\A cols \in InsertArgs \cup BadInsertArgs :
       (/\ InsertStep(cols)
        /\ \/ Len(cols) # num_columns
           \/ LiveWithKey(table, cols[key + 1]) # {})
         => /\ ~ret'.ok
            /\ table'.base_record_count = table.base_record_count
            /\ table'.page_directory = table.page_directory
            /\ table'.pages = table.pages
            /\ table'.index = table.index]_vars

\* C27: after an update call every live row still has the primary-key value
\* it was inserted with, and the PK index maps that value to the row
C27_PrimaryKeyImmutable ==
  [][ret'.op = "update" =>
       \A r \in LiveBase(table') \cap DOMAIN hist' :
         /\ LatestOn(table', r, key) = hist'[r].pk
         /\ r \in Range(locate(table'.index, key, hist'[r].pk))]_vars

(***************************************************************************)
(* Claims about the B+ tree (checked under SpecTree)                       *)
(***************************************************************************)
\* the pairs of an ordered map m with a <= key <= b, in ascending key order
OrderedPairs(m, a, b) ==
  LET ks == SortedSeq({x \in DOMAIN m : a <= x /\ x <= b})
  IN [i \in 1..Len(ks) |-> <<ks[i], m[ks[i]]>>]

LeastKey == Min(TreeKeys)

GreatestKey == CHOOSE x \in TreeKeys : \A y \in TreeKeys : y <= x

\* C29: after any sequence of insert and delete the tree behaves as an
\* ordered map: insert of a present key returns False and leaves the tree
\* as it was, insert of an absent key returns True, delete returns whether
\* the key was present, search returns the stored value or None, traverse
\* yields the present pairs in ascending key order and range_search(a, b)
\* those with a <= key <= b
C29_TreeIsOrderedMap ==
  [][LET before == treecall.present
         after == treecall'.present
         c == treecall'
     IN /\ c.op = "insert" =>
             /\ c.result = (c.key \notin DOMAIN before)
             /\ c.key \in DOMAIN before => bptree' = bptree
        /\ c.op = "delete" => c.result = (c.key \in DOMAIN before)
        /\ c.op = "search" =>
             c.result = IF c.key \in DOMAIN after THEN after[c.key] ELSE None
        /\ c.op = "traverse" => c.result = OrderedPairs(after, LeastKey, GreatestKey)
        /\ c.op = "range_search" => c.result = OrderedPairs(after, c.key, c.hi)]_vars

C29_Witness ==
  /\ treecall.op = "range_search"
  /\ Len(treecall.result) = 2
  /\ Cardinality(DOMAIN treecall.present) = 3
  /\ ~bptree.nodes[bptree.root].is_leaf
  /\ bptree.order = 3

\* the nodes of the subtree of node
Under(t, node) == Range(PreOrder(t, node))

\* C30: when an insert leaves a leaf with n > order - 1 keys, the leaf is
\* split: a left leaf holds the first n \div 2 keys, a right leaf the rest,
\* left.next is the right leaf, whose next is what the leaf's was, and the
\* first key of the right leaf separates the two in the tree above them (in
\* their parent when that did not split in turn, in a new root when the leaf
\* was the root).  With order 4 the inserts 10, 20, 30, 40 give a root with
\* keys [30] over the leaves [10, 20] and [30, 40]
C30_LeafSplit ==
  [][(treecall'.op = "insert" /\ treecall'.result = TRUE) =>
       LET k == treecall'.key
           leaf == _find_leaf(bptree, k)
           n == bptree.nodes[leaf]
           at == InsertIndex(n.keys, k)
           keys == ListInsert(n.keys, at, k)
           values == ListInsert(n.values, at, treecall'.value)
           mid == Len(keys) \div 2
           parent == _find_parent(bptree, bptree.root, leaf)
           t == bptree'
       IN /\ Len(keys) > bptree.order - 1 =>
               \E l \in 1..Len(t.nodes) : \E r \in 1..Len(t.nodes) :
                 /\ t.nodes[l].is_leaf /\ t.nodes[r].is_leaf
                 /\ t.nodes[l].keys = SubSeq(keys, 1, mid)
                 /\ t.nodes[l].values = SubSeq(values, 1, mid)
                 /\ t.nodes[r].keys = SubSeq(keys, mid + 1, Len(keys))
                 /\ t.nodes[r].values = SubSeq(values, mid + 1, Len(keys))
                 /\ t.nodes[l].next = r
                 /\ IF n.next = 0 THEN t.nodes[r].next = 0
                    ELSE /\ t.nodes[r].next # 0
                         /\ t.nodes[t.nodes[r].next].keys = bptree.nodes[n.next].keys
                 /\ \E p \in 1..Len(t.nodes) : \E i \in 1..Len(t.nodes[p].keys) :
                      /\ ~t.nodes[p].is_leaf
                      /\ t.nodes[p].keys[i] = t.nodes[r].keys[1]
                      /\ l \in Under(t, t.nodes[p].children[i])
                      /\ r \in Under(t, t.nodes[p].children[i + 1])
                      /\ leaf = bptree.root =>
                           /\ p = t.root
                           /\ t.nodes[p].keys = <<t.nodes[r].keys[1]>>
                           /\ t.nodes[p].children = <<l, r>>
                      /\ (parent # 0 /\ Len(bptree.nodes[parent].keys) + 1 <= bptree.order - 1) =>
                           /\ t.nodes[p].children[i] = l
                           /\ t.nodes[p].children[i + 1] = r
                           /\ Len(t.nodes[p].keys) = Len(bptree.nodes[parent].keys) + 1
          /\ (bptree.order = 4 /\ Len(bptree.nodes) = 1 /\ n.keys = <<10, 20, 30>> /\ k = 40) =>
               /\ Len(t.nodes) = 3
               /\ ~t.nodes[t.root].is_leaf
               /\ t.nodes[t.root].keys = <<30>>
               /\ Len(t.nodes[t.root].children) = 2
               /\ t.nodes[t.nodes[t.root].children[1]].keys = <<10, 20>>
               /\ t.nodes[t.nodes[t.root].children[2]].keys = <<30, 40>>
               /\ traverse(t) = OrderedPairs(treecall'.present, 10, 40)]_vars

C30_Witness ==
  /\ treecall.op = "insert" /\ treecall.result = TRUE /\ treecall.key = 40
  /\ bptree.order = 4
  /\ Len(bptree.nodes) = 3
  /\ bptree.nodes[bptree.root].keys = <<30>>
  /\ bptree.nodes[bptree.nodes[bptree.root].children[1]].keys = <<10, 20>>
  /\ bptree.nodes[bptree.nodes[bptree.root].children[2]].keys = <<30, 40>>

(***************************************************************************)
(* The lock table as a whole (checked under SpecLock)                      *)
(***************************************************************************)
\* C31: every method of the LockManager runs under the one mutex, so the
\* calls interleave as whole steps; in every state each RID's entry has an
\* empty shared set whenever an exclusive holder is set, hence no
\* transaction holds X on a RID next to another transaction's S or X.
C31_LockEntryConsistent ==
  \A rid \in DOMAIN locks :
     /\ locks[rid].exclusive # None => locks[rid].shared = {}
     /\ \A txn_id \in LockTxns :
          locks[rid].exclusive = txn_id => OtherHolders(locks, txn_id, rid) = {}

\* a shared holder was upgraded while another RID is shared by two others
C31_Witness ==
  /\ lockcall.op = "acquire_exclusive"
  /\ lockcall.result = "granted"
  /\ lockcall.txn \in Entry(lockcall.before, lockcall.rid).shared
  /\ locks[lockcall.rid].exclusive = lockcall.txn
  /\ \E rid \in DOMAIN locks : Cardinality(locks[rid].shared) = 2

(***************************************************************************)
(* The tail chain of a base row (checked under Spec)                       *)
(***************************************************************************)
\* the RIDs met by following INDIRECTION from cur until 0, a cell that
\* cannot be read, or fuel hops
RECURSIVE IndirectionChain(_, _, _)
IndirectionChain(t, cur, fuel) ==
  IF cur = 0 \/ cur = None \/ fuel = 0 THEN <<>>
  ELSE IF ~CanRead(t, cur, INDIRECTION_COLUMN) THEN <<cur>>
  ELSE <<cur>> \o IndirectionChain(t, _read_cell(t, cur, INDIRECTION_COLUMN), fuel - 1)

\* the chain of a base row, newest tail first
TailChainOf(t, base_rid) ==
  IF ~CanRead(t, base_rid, INDIRECTION_COLUMN) THEN <<>>
  ELSE IndirectionChain(t, _read_cell(t, base_rid, INDIRECTION_COLUMN),
                        t.tail_record_count + 1)

\* a step of Query.update(pk, *cols)
UpdateStep(pk, cols) ==
  /\ ret'.op = "update"
  /\ table' = update(table, pk, cols, _ts_millis).t
  /\ ret'.ok = update(table, pk, cols, _ts_millis).ret

\* the chain is made of tails of the page directory, strictly decreasing,
\* and ends at 0 within tail_count hops
WellFormedChain(t, base_rid) ==
  LET chain == TailChainOf(t, base_rid)
  IN /\ Len(chain) <= t.tail_record_count
     /\ \A i \in 1..Len(chain) :
          /\ chain[i] \in TailRids(t)
          /\ CanRead(t, chain[i], INDIRECTION_COLUMN)
          /\ i < Len(chain) => chain[i + 1] < chain[i]
          /\ i < Len(chain) => _read_cell(t, chain[i], INDIRECTION_COLUMN) = chain[i + 1]
     /\ chain # <<>> => _read_cell(t, chain[Len(chain)], INDIRECTION_COLUMN) = 0

\* C32: in every state reached by insert, update and delete the chain of
\* each base row strictly decreases and reaches 0 within tail_count hops
\* (so it is acyclic), no tail is on the chains of two base rows, and a
\* chain only ever changes by an update of its own base row putting a tail
\* that did not exist before in front of it.
C32_TailChainWellFormed ==
  /\ [](\A b \in BaseRids(table) :
          /\ WellFormedChain(table, b)
          /\ \A c \in BaseRids(table) \ {b} :
               Range(TailChainOf(table, b)) \cap Range(TailChainOf(table, c)) = {})
  /\ [][\A b \in BaseRids(table') :
          LET old == IF b \in BaseRids(table) THEN TailChainOf(table, b) ELSE <<>>
              new == TailChainOf(table', b)
          IN \/ new = old
             \/ /\ new # <<>>
                /\ Tail(new) = old
                /\ Head(new) \notin DOMAIN table.page_directory
                /\ \E pk \in Keys : \E cols \in UpdateArgs :
                      UpdateStep(pk, cols) /\ _pk_to_rid(table, pk) = b]_vars

\* a second update has put a tail in front of the first one
C32_Witness ==
  /\ ret.op = "update"
  /\ ret.ok
  /\ \E b \in BaseRids(table) : Len(TailChainOf(table, b)) = 2

(***************************************************************************)
(* INDIRECTION of the base rows (checked under SpecStore)                  *)
(***************************************************************************)
IndirectionOf(t, base_rid) == _read_cell(t, base_rid, INDIRECTION_COLUMN)

\* the step is a successful Query.update that resolves to base row b and
\* gives a value that differs from the row's latest one
ChangingUpdateOf(b) ==
  \E pk \in Keys : \E cols \in UpdateArgs :
     /\ UpdateStep(pk, cols)
     /\ ret'.ok
     /\ _pk_to_rid(table, pk) = b
     /\ \E i \in 1..num_columns :
          cols[i] # None /\ cols[i] # _latest_user_values(table, b)[i]

\* C33: a base row starts with INDIRECTION 0; an update that changes a
\* column sets it to the RID of the tail it has just written, which is in
\* the page directory; no other step (insert, delete, merge, ...) changes
\* it.  Hence it is 0 iff no changing update was applied to the row, and
\* the row's most recently written tail otherwise.
C33_IndirectionIsNewestTail ==
  [][\A b \in BaseRids(table') :
       IF b \notin BaseRids(table) THEN IndirectionOf(table', b) = 0
       ELSE IF ChangingUpdateOf(b)
       THEN /\ IndirectionOf(table', b) = TAIL_RID_START + table.tail_record_count
            /\ IndirectionOf(table', b) \in TailRids(table')
            /\ IndirectionOf(table', b) \notin TailRids(table)
       ELSE IndirectionOf(table', b) = IndirectionOf(table, b)]_vars

(***************************************************************************)
(* Placement of the base rows (checked under SpecInsert)                   *)
(***************************************************************************)
\* the full record Table.insert_row writes for the row with base RID rid
InsertedRecord(rid, cols) == <<0, rid, _ts_millis, 0>> \o cols

\* C34: after any sequence of inserts the r-th row whose insert returned
\* True has base RID r; its page-directory entry has META+U locations, none
\* of them null, each on the base page of its column with page number
\* r div MAX_RECORDS_PER_PAGE at slot r mod MAX_RECORDS_PER_PAGE, and the
\* cell read through it holds the value inserted for that column.
C34_BaseRowPlacement ==
  /\ table.base_record_count = Cardinality(DOMAIN hist)
  /\ DOMAIN table.page_directory = 0..table.base_record_count - 1
  /\ \A r \in DOMAIN hist :
       /\ r \in DOMAIN table.page_directory
       /\ Len(table.page_directory[r]) = META_COLUMNS + num_columns
       /\ \A c \in 0..META_COLUMNS + num_columns - 1 :
            /\ table.page_directory[r][c + 1]
                 = <<_page_id(c, r \div MAX_RECORDS_PER_PAGE, TRUE),
                     r % MAX_RECORDS_PER_PAGE>>
            /\ CanRead(table, r, c)
            /\ _read_cell(table, r, c) = InsertedRecord(r, hist[r].rows[1])[c + 1]

\* the row inserted after MAX_RECORDS_PER_PAGE rows is on page 1, slot 0
C34_Witness ==
  /\ ret.op = "insert"
  /\ ret.ok
  /\ MAX_RECORDS_PER_PAGE \in DOMAIN table.page_directory
  /\ \A c \in 0..META_COLUMNS + num_columns - 1 :
       table.page_directory[MAX_RECORDS_PER_PAGE][c + 1] = <<_page_id(c, 1, TRUE), 0>>

(***************************************************************************)
(* Pins and eviction (checked under SpecPins)                              *)
(***************************************************************************)
\* C35: pins are counted: a get_page that misses removes only a frame whose
\* every pin_page call was matched by an unpin_page call; after two pins
\* and one unpin the frame stays through a miss on a full pool.
C35_PinsAreCounted ==
  [][poolcall'.op = "get_page" =>
       \A v \in DOMAIN bufferpool.pages \ DOMAIN bufferpool'.pages :
          pins[v] = 0]_vars

(***************************************************************************)
(* Eviction as seen by a reader (checked under SpecClient)                 *)
(***************************************************************************)
\* C38: when every append and overwrite is followed by mark_dirty while the
\* page is resident, every get_page returns a page whose slots hold the
\* values last written to them, however many evictions the gets in between
\* forced; a page that is not resident has these values in its file.
C38_EvictionIsTransparent ==
  /\ (poolcall.op = "get_page" /\ ~poolcall.exc) =>
        /\ poolcall.pid \in DOMAIN bufferpool.pages
        /\ bufferpool.pages[poolcall.pid].page = Written(poolcall.pid)
  /\ \A page_id \in PoolPids \ DOMAIN bufferpool.pages :
        _load_page(disk, page_id) = Written(page_id)

\* a get misses and reloads a page that was appended to, overwritten and
\* evicted
C38_Witness ==
  /\ poolcall.op = "get_page"
  /\ ~poolcall.exc
  /\ poolcall.pid \notin DOMAIN poolcall.before
  /\ Cardinality(DOMAIN poolcall.before) >= BUFFERPOOL_SIZE
  /\ bufferpool.pages[poolcall.pid].page = <<8>>
  /\ \E q \in PoolPids \ DOMAIN bufferpool.pages : Written(q) = <<7>>

(***************************************************************************)
(* Writers on the shared Bufferpool (checked under SpecWriters)            *)
(***************************************************************************)
\* the page of page_id as the next get_page would return it
Visible(page_id) ==
  IF page_id \in DOMAIN bufferpool.pages THEN bufferpool.pages[page_id].page
  ELSE _load_page(disk, page_id)

Occurrences(sq, v) == Cardinality({i \in 1..Len(sq) : sq[i] = v})

\* C36: under every interleaving of the threads, get, pin and mark_dirty
\* act as one step: every value a thread has written between get/pin and
\* mark_dirty/unpin is in the resident frame of its page or, when the page
\* is not resident, in its file.
C36_NoWriteIsLost ==
  \A w \in Writers : \A page_id \in PoolPids :
     writers[w].finished[page_id] <= Occurrences(Visible(page_id), w)

(***************************************************************************)
(* Concurrent inserts and updates (checked under SpecInserters)            *)
(***************************************************************************)
Quiet == \A w \in Inserters : inserters[w].pc = "idle"

\* C37: threads that insert rows with different primary keys get distinct
\* base RIDs, base_count grows by one per insert, and the directory entry of
\* each RID leads to the values of that thread's row; threads that update
\* get distinct tail RIDs and tail_count grows by one per tail.
C37_RidAllocationIsAtomic ==
  /\ \A v, w \in Inserters :
       (v # w /\ inserters[v].inserted # None /\ inserters[w].inserted # None)
          => inserters[v].inserted # inserters[w].inserted
  /\ \A v, w \in Inserters :
       (v # w /\ inserters[v].updated # None /\ inserters[w].updated # None)
          => inserters[v].updated # inserters[w].updated
  /\ Quiet =>
       /\ table.base_record_count
            = Cardinality({w \in Inserters : inserters[w].inserted # None})
       /\ table.tail_record_count
            = Cardinality({w \in Inserters : inserters[w].updated # None})
       /\ \A w \in Inserters :
            inserters[w].inserted # None =>
              \A i \in 1..num_columns :
                 /\ CanRead(table, inserters[w].inserted, META_COLUMNS + i - 1)
                 /\ _read_cell(table, inserters[w].inserted, META_COLUMNS + i - 1)
                      = inserters[w].row[i]

(***************************************************************************)
(* The update that changes nothing (checked under Spec)                    *)
(***************************************************************************)
\* every value given is None or the latest value of the live row of pk
ChangesNothing(t, pk, cols) ==
  LET rid == _pk_to_rid(t, pk)
  IN /\ rid # None
     /\ rid \notin t.deleted
     /\ CanReadLatest(t, rid)
     /\ \A i \in 1..num_columns :
          cols[i] = None \/ cols[i] = _latest_user_values(t, rid)[i]

\* C39: an update whose values are all None or equal to the row's latest
\* values returns True and writes nothing: tail_count, the INDIRECTION
\* cells, the page directory and the pages are as before, and
\* select_version sees the same versions as before.
C39_NoOpUpdate ==
  [][\A pk \in Keys : \A cols \in UpdateArgs :
       (UpdateStep(pk, cols) /\ ChangesNothing(table, pk, cols)) =>
          /\ ret'.ok
          /\ table'.tail_record_count = table.tail_record_count
          /\ table'.page_directory = table.page_directory
          /\ table'.pages = table.pages
          /\ table' = table
          /\ \A rv \in VersionsAsked :
               select_version(table', qcache', pk, key, AllOnes, rv)
                 = select_version(table, qcache, pk, key, AllOnes, rv)]_vars

\* a row that has a tail was updated once more with its latest values
C39_Witness ==
  /\ ret.op = "update"
  /\ ret.ok
  /\ table.tail_record_count = 1
  /\ \E r \in DOMAIN hist :
       /\ Len(hist[r].rows) = 3
       /\ hist[r].rows[3] = hist[r].rows[2]
       /\ hist[r].rows[2] # hist[r].rows[1]

(***************************************************************************)
(* Node capacity of the B+ tree (checked under SpecMerge)                  *)
(***************************************************************************)
\* C40: after any sequence of inserts and deletes every node holds at most
\* order-1 keys, every internal node has len(keys)+1 children, and every
\* leaf has as many values as keys; a merge never leaves a node above this
\* capacity.
C40_NodeCapacity ==
  \A n \in 1..Len(bptree.nodes) :
     LET node == bptree.nodes[n]
     IN /\ Len(node.keys) <= bptree.order - 1
        /\ ~node.is_leaf => Len(node.children) = Len(node.keys) + 1
        /\ node.is_leaf => Len(node.values) = Len(node.keys)

============================================================================
